---- MODULE Spec2Model ----
(***************************************************************************)
(* GuideWire: the decision-tree validator (builder/tree_builder.py).       *)
(*                                                                         *)
(* A document is a Python dict decoded from JSON.  It is modelled as a     *)
(* TLA+ function whose DOMAIN is the set of keys the dict holds, so that   *)
(* `"title" not in tree_dict` is `"title" \notin DOMAIN tree_dict`.        *)
(* String values are TLA+ strings; JSON null in a string position is the   *)
(* reserved value None.  A value in a list position (`nodes`, `options`)   *)
(* is tagged with its JSON kind, so that isinstance(v, list) can be asked. *)
(***************************************************************************)
EXTENDS Integers, Sequences, FiniteSets, TLC

\* the validator's caller: the document, the outcome of the last and of the
\* previous call of validate on it, the number of calls
VARIABLES tree_dict, outcome, previous, calls

\* a TreeEngine: the index self._nodes, the cursor self._current_id and
\* self._history, and what the last call on it was and gave
VARIABLES engine_nodes, current_id, history, last

\* a second TreeEngine over the same tree: its cursor
VARIABLES other_id, other_history

\* the builder's window in single-document mode: self._tree_dict and the
\* thread that assigned it last, whether the node list shows its nodes, the
\* analysis thread and the build thread, the callbacks scheduled with
\* after(), the two buttons, and the tree the build has written out
VARIABLES builder_tree, tree_written_by, listed, analysis, analyses,
          after_queue, analyze_btn, build, build_btn, packaged

\* the builder's window in bulk mode: self._mode, self._bulk_manifest, the
\* thread of _run_bulk_generate and, of LibraryBuilder.build in it, the
\* number of manifest entries gone through, the list library_entries, the
\* files of trees/ and the file library.json
VARIABLES mode, manifest, generate, lib_pos, library_entries, tree_files,
          library_json

validatorVars == <<tree_dict, outcome, previous, calls>>

engineVars == <<engine_nodes, current_id, history, last>>

sessionVars == <<other_id, other_history>>

builderVars == <<builder_tree, tree_written_by, listed, analysis, analyses,
                 after_queue, analyze_btn, build, build_btn, packaged>>

\* the library viewer: the entries of library.json the LibraryEngine loaded,
\* the files of trees/ in the content folder, and of the window the active
\* category, the text of the search bar, the rows of the entry list, the
\* active entry, self._tree_engine and what the tree panel shows
VARIABLES engine_entries, trees_dir, active_category, search_var, shown,
          active_entry, tree_engine, tree_panel

viewerVars == <<engine_entries, trees_dir, active_category, search_var, shown,
                active_entry, tree_engine, tree_panel>>

\* a bulk ingest: the .docx files under the source folder, the files under
\* docs/ in the output folder, the manifest file, what the last call of
\* ingest met and did, and the number of changes made to the source folder
VARIABLES source_files, docs_dir, manifest_file, ingest_last, source_changes

ingestVars == <<source_files, docs_dir, manifest_file, ingest_last,
                source_changes>>

libraryVars == <<mode, manifest, generate, lib_pos, library_entries,
                 tree_files, library_json>>

\* the viewer's window (viewer/ui/viewer_ui.py): the buttons _update_nav
\* packed into self._nav_frame, each with the call its command makes, and
\* the state of self._back_btn
VARIABLES nav_frame, back_btn

windowVars == <<nav_frame, back_btn>>

\* the traversal at the end of TreeBuilder.validate, step by step: its set
\* visited, its list queue, and the ids in the order visited.add received
\* them
VARIABLES trav_visited, trav_queue, visit_log

traversalVars == <<trav_visited, trav_queue, visit_log>>

\* the state of the parts of the application a specification leaves aside
restVars == <<sessionVars, builderVars, libraryVars, viewerVars, ingestVars,
              windowVars, traversalVars>>

\* what the single-document steps of the builder's window leave alone
besidesBuilder == <<engineVars, sessionVars, libraryVars, viewerVars,
                    ingestVars, windowVars, traversalVars>>

\* what the bulk steps of the builder's window leave alone
besidesLibrary == <<engineVars, sessionVars, viewerVars, ingestVars,
                    windowVars, traversalVars>>

\* what the library viewer leaves alone
besidesViewer == <<engineVars, sessionVars, builderVars, libraryVars,
                   ingestVars, windowVars, traversalVars>>

\* what a bulk ingest leaves alone
besidesIngest == <<engineVars, sessionVars, builderVars, libraryVars,
                   viewerVars, windowVars, traversalVars>>

vars == <<tree_dict, outcome, previous, calls,
          engine_nodes, current_id, history, last, restVars>>

-----------------------------------------------------------------------------
(* Bounds of the input space *)

\* longest `nodes` list of a document of GraphDocs
MaxNodes == 3
\* longest `nodes` list of a document of DefectDocs
MaxDefectNodes == 2
\* longest `options` list of a document of OptionDocs
MaxOptions == 2
\* how many times validate is called on the same document
MaxCalls == 2
\* most documents in a manifest
MaxManifest == 2
\* most changes made to the files of the source folder
MaxSourceChanges == 2
\* longest history a navigation session builds up
MaxHistory == 3

\* texts of nodes assigned after the engine has loaded the tree
MaxEdits == 1
\* how many times the user runs the analysis in the builder
MaxAnalyses == 2
\* texts of nodes the user edits in the builder
MaxBuilderEdits == 1

-----------------------------------------------------------------------------
(* JSON values *)

None == "<None>"

JList(s) == [kind |-> "list", items |-> s]
JNull == [kind |-> "null"]
JString(s) == [kind |-> "string", value |-> s]

IsList(v) == v.kind = "list"

\* Python truthiness of a decoded JSON string-or-null
TruthyStr(v) == v # None /\ v # ""

\* Python truthiness of a decoded JSON value in a list position
TruthyVal(v) ==
    CASE v.kind = "list" -> v.items # <<>>
      [] v.kind = "null" -> FALSE
      [] v.kind = "string" -> v.value # ""

\* dict.get(key) for a string-valued key: None when the key is absent
GetStr(d, key) == IF key \in DOMAIN d THEN d[key] ELSE None

\* dict.get(key) for a list-valued key: None when the key is absent
GetVal(d, key) == IF key \in DOMAIN d THEN d[key] ELSE JNull

Range(s) == {s[i] : i \in DOMAIN s}

-----------------------------------------------------------------------------
(* Lexicographic order of Python str: by code point, a proper prefix first *)

CodePoints ==
    [Net   |-> <<78, 101, 116>>,
     Uncategorized |-> <<85, 110, 99, 97, 116, 101, 103, 111, 114, 105, 122,
                         101, 100>>,
     start |-> <<115, 116, 97, 114, 116>>,
     n2    |-> <<110, 50>>,
     n10   |-> <<110, 49, 48>>,
     ghost |-> <<103, 104, 111, 115, 116>>]

RECURSIVE SeqLess(_, _)
SeqLess(s, t) ==
    IF s = <<>> THEN t # <<>>
    ELSE IF t = <<>> THEN FALSE
    ELSE IF Head(s) # Head(t) THEN Head(s) < Head(t)
    ELSE SeqLess(Tail(s), Tail(t))

StrLess(x, y) == SeqLess(CodePoints[x], CodePoints[y])

\* shorter strings first, as a numeric suffix would be ordered
RECURSIVE SortedShortestFirst(_)
SortedShortestFirst(S) ==
    IF S = {} THEN <<>>
    ELSE LET m == CHOOSE x \in S : \A y \in S \ {x} :
                    \/ Len(CodePoints[x]) < Len(CodePoints[y])
                    \/ /\ Len(CodePoints[x]) = Len(CodePoints[y])
                       /\ StrLess(x, y)
         IN  <<m>> \o SortedShortestFirst(S \ {m})

\* sorted(S) of a set of str: ascending
RECURSIVE Sorted(_)
Sorted(S) ==
    IF S = {} THEN <<>>
    ELSE LET m == CHOOSE x \in S : \A y \in S \ {x} : StrLess(x, y)
         IN  <<m>> \o Sorted(S \ {m})

-----------------------------------------------------------------------------
(* The outcomes of validate: True, or the ValueError it raises.  An error  *)
(* is the message's fixed text with the values the f-string interpolates.  *)

Accepted == [ok |-> TRUE]

ErrMissingKey(key) ==
    [ok |-> FALSE, error |-> "Tree is missing required key", key |-> key]
ErrNodesNotNonEmptyList ==
    [ok |-> FALSE, error |-> "'nodes' must be a non-empty list"]
ErrNodeMissingKey(key, node) ==
    [ok |-> FALSE, error |-> "Node is missing required key", key |-> key,
     node |-> node]
ErrNoStart ==
    [ok |-> FALSE, error |-> "Tree must contain a node with id 'start'"]
ErrQuestionOptions(node_id) ==
    [ok |-> FALSE,
     error |-> "Question node must have an 'options' list with at least 2 entries",
     node_id |-> node_id]
ErrOptionKeys(node_id) ==
    [ok |-> FALSE,
     error |-> "Each option in question node must have 'label' and 'next' keys",
     node_id |-> node_id]
ErrOptionUnknownId(label, node_id, next_id) ==
    [ok |-> FALSE, error |-> "Option in node references unknown node id",
     label |-> label, node_id |-> node_id, next_id |-> next_id]
ErrStepNoNext(node_id) ==
    [ok |-> FALSE, error |-> "Step node must have a 'next' field",
     node_id |-> node_id]
ErrStepUnknownId(node_id, next_id) ==
    [ok |-> FALSE, error |-> "Step node references unknown node id",
     node_id |-> node_id, next_id |-> next_id]
ErrResolutionNotTerminal(node_id) ==
    [ok |-> FALSE,
     error |-> "Resolution node must be terminal (no 'next' or 'options' fields)",
     node_id |-> node_id]
ErrUnknownType(node_id, node_type) ==
    [ok |-> FALSE, error |-> "Node has unknown type",
     node_id |-> node_id, node_type |-> node_type]
ErrUnreachable(ids) ==
    [ok |-> FALSE, error |-> "The following nodes are unreachable from 'start'",
     ids |-> ids]

-----------------------------------------------------------------------------
(* TreeBuilder.validate *)

RequiredNodeKeys == <<"id", "type", "text">>

\* the first of id, type, text that the node lacks; None when it has all three
FirstMissingKey(node) ==
    IF \A k \in DOMAIN RequiredNodeKeys : RequiredNodeKeys[k] \in DOMAIN node
    THEN None
    ELSE RequiredNodeKeys[
            CHOOSE k \in DOMAIN RequiredNodeKeys :
                /\ RequiredNodeKeys[k] \notin DOMAIN node
                /\ \A j \in 1..(k - 1) : RequiredNodeKeys[j] \in DOMAIN node]

\* ids collected with a check that no id comes twice
RECURSIVE CollectIdsOnce(_, _, _)
CollectIdsOnce(nodes, i, node_ids) ==
    IF i > Len(nodes) THEN [ok |-> TRUE, node_ids |-> node_ids]
    ELSE IF FirstMissingKey(nodes[i]) # None
         THEN ErrNodeMissingKey(FirstMissingKey(nodes[i]), nodes[i])
         ELSE IF nodes[i].id \in node_ids
         THEN [ok |-> FALSE, error |-> "Duplicate node id", id |-> nodes[i].id]
         ELSE CollectIdsOnce(nodes, i + 1, node_ids \cup {nodes[i].id})

\* the loop that collects node_ids, from node i on: the set, or the error raised
RECURSIVE CollectIds(_, _, _)
CollectIds(nodes, i, node_ids) ==
    IF i > Len(nodes) THEN [ok |-> TRUE, node_ids |-> node_ids]
    ELSE IF FirstMissingKey(nodes[i]) # None
         THEN ErrNodeMissingKey(FirstMissingKey(nodes[i]), nodes[i])
         ELSE CollectIds(nodes, i + 1, node_ids \cup {nodes[i].id})

\* a dangling option target is skipped instead of reported
RECURSIVE CheckOptionsSkippingUnknown(_, _, _, _, _)
CheckOptionsSkippingUnknown(options, j, node_id, node_ids, adjacency) ==
    IF j > Len(options) THEN [ok |-> TRUE, adjacency |-> adjacency]
    ELSE LET opt == options[j] IN
         IF "label" \notin DOMAIN opt \/ "next" \notin DOMAIN opt
         THEN ErrOptionKeys(node_id)
         ELSE IF opt.next \notin node_ids
         THEN CheckOptionsSkippingUnknown(options, j + 1, node_id, node_ids,
                  adjacency)
         ELSE CheckOptionsSkippingUnknown(options, j + 1, node_id, node_ids,
                  [adjacency EXCEPT ![node_id] = Append(@, opt.next)])

\* the loop over a question's options, from option j on
RECURSIVE CheckOptions(_, _, _, _, _)
CheckOptions(options, j, node_id, node_ids, adjacency) ==
    IF j > Len(options) THEN [ok |-> TRUE, adjacency |-> adjacency]
    ELSE LET opt == options[j] IN
         IF "label" \notin DOMAIN opt \/ "next" \notin DOMAIN opt
         THEN ErrOptionKeys(node_id)
         ELSE IF opt.next \notin node_ids
         THEN ErrOptionUnknownId(opt.label, node_id, opt.next)
         ELSE CheckOptions(options, j + 1, node_id, node_ids,
                  [adjacency EXCEPT ![node_id] = Append(@, opt.next)])

\* a question with a single option passes
CheckQuestionOneOptionEnough(node, node_ids, adjacency) ==
    LET options == GetVal(node, "options") IN
    IF ~IsList(options) \/ Len(options.items) < 1
    THEN ErrQuestionOptions(node.id)
    ELSE CheckOptions(options.items, 1, node.id, node_ids, adjacency)

\* the question branch of the per-node loop
CheckQuestion(node, node_ids, adjacency) ==
    LET options == GetVal(node, "options") IN
    IF ~IsList(options) \/ Len(options.items) < 2
    THEN ErrQuestionOptions(node.id)
    ELSE CheckOptions(options.items, 1, node.id, node_ids, adjacency)

\* the step branch that lets a next through that is no node id
CheckStepSkippingUnknown(node, node_ids, adjacency) ==
    LET next_id == GetStr(node, "next") IN
    IF ~TruthyStr(next_id) THEN ErrStepNoNext(node.id)
    ELSE IF next_id \notin node_ids THEN [ok |-> TRUE, adjacency |-> adjacency]
    ELSE [ok |-> TRUE,
          adjacency |-> [adjacency EXCEPT ![node.id] = Append(@, next_id)]]

\* a step without a next is taken for a terminal node
CheckStepNextOptional(node, node_ids, adjacency) ==
    LET next_id == GetStr(node, "next") IN
    IF ~TruthyStr(next_id) THEN [ok |-> TRUE, adjacency |-> adjacency]
    ELSE IF next_id \notin node_ids THEN ErrStepUnknownId(node.id, next_id)
    ELSE [ok |-> TRUE,
          adjacency |-> [adjacency EXCEPT ![node.id] = Append(@, next_id)]]

\* the step branch of the per-node loop
CheckStep(node, node_ids, adjacency) ==
    LET next_id == GetStr(node, "next") IN
    IF ~TruthyStr(next_id) THEN ErrStepNoNext(node.id)
    ELSE IF next_id \notin node_ids THEN ErrStepUnknownId(node.id, next_id)
    ELSE [ok |-> TRUE,
          adjacency |-> [adjacency EXCEPT ![node.id] = Append(@, next_id)]]

\* the resolution branch of the per-node loop
CheckResolution(node, node_ids, adjacency) ==
    IF TruthyStr(GetStr(node, "next")) \/ TruthyVal(GetVal(node, "options"))
    THEN ErrResolutionNotTerminal(node.id)
    ELSE [ok |-> TRUE, adjacency |-> adjacency]

\* a node of another type is let through
CheckNodeAnyType(node, node_ids, adjacency) ==
    LET node_type == node.type IN
    IF node_type = "question" THEN CheckQuestion(node, node_ids, adjacency)
    ELSE IF node_type = "step" THEN CheckStep(node, node_ids, adjacency)
    ELSE IF node_type = "resolution"
    THEN CheckResolution(node, node_ids, adjacency)
    ELSE [ok |-> TRUE, adjacency |-> adjacency]

\* one pass of the per-node loop: the adjacency map extended, or the error
CheckNode(node, node_ids, adjacency) ==
    LET node_type == node.type IN
    IF node_type = "question" THEN CheckQuestion(node, node_ids, adjacency)
    ELSE IF node_type = "step" THEN CheckStep(node, node_ids, adjacency)
    ELSE IF node_type = "resolution"
    THEN CheckResolution(node, node_ids, adjacency)
    ELSE ErrUnknownType(node.id, node_type)

\* the per-node loop, from node i on
RECURSIVE BuildAdjacency(_, _, _, _)
BuildAdjacency(nodes, i, node_ids, adjacency) ==
    IF i > Len(nodes) THEN [ok |-> TRUE, adjacency |-> adjacency]
    ELSE LET r == CheckNode(nodes[i], node_ids, adjacency) IN
         IF ~r.ok THEN r
         ELSE BuildAdjacency(nodes, i + 1, node_ids, r.adjacency)

\* the worklist loop: pop the last entry, skip it when visited, else mark it
\* and push its successors
RECURSIVE Traverse(_, _, _)
Traverse(visited, queue, adjacency) ==
    IF queue = <<>> THEN visited
    ELSE LET current == queue[Len(queue)]
             rest == SubSeq(queue, 1, Len(queue) - 1)
         IN  IF current \in visited
             THEN Traverse(visited, rest, adjacency)
             ELSE Traverse(visited \cup {current}, rest \o adjacency[current],
                           adjacency)

\* the difference taken the wrong way round
UnreachableReversed(node_ids, visited) == visited \ node_ids

Unreachable(node_ids, visited) == node_ids \ visited

\* the type rules are checked before the presence of "start"
ValidateTypesBeforeStart(doc) ==
    IF "title" \notin DOMAIN doc THEN ErrMissingKey("title")
    ELSE IF "nodes" \notin DOMAIN doc THEN ErrMissingKey("nodes")
    ELSE LET nodes == doc.nodes IN
    IF ~IsList(nodes) \/ Len(nodes.items) = 0 THEN ErrNodesNotNonEmptyList
    ELSE LET collected == CollectIds(nodes.items, 1, {}) IN
    IF ~collected.ok THEN collected
    ELSE LET node_ids == collected.node_ids
             built == BuildAdjacency(nodes.items, 1, node_ids,
                                     [nid \in node_ids |-> <<>>]) IN
    IF ~built.ok THEN built
    ELSE IF "start" \notin node_ids THEN ErrNoStart
    ELSE LET visited == Traverse({}, <<"start">>, built.adjacency)
             unreachable == Unreachable(node_ids, visited)
         IN  IF unreachable # {} THEN ErrUnreachable(Sorted(unreachable))
             ELSE Accepted

\* the nodes list is checked before the title
ValidateNodesBeforeTitle(doc) ==
    IF "nodes" \notin DOMAIN doc THEN ErrMissingKey("nodes")
    ELSE LET nodes == doc.nodes IN
    IF ~IsList(nodes) \/ Len(nodes.items) = 0 THEN ErrNodesNotNonEmptyList
    ELSE IF "title" \notin DOMAIN doc THEN ErrMissingKey("title")
    ELSE LET collected == CollectIds(nodes.items, 1, {}) IN
    IF ~collected.ok THEN collected
    ELSE LET node_ids == collected.node_ids IN
    IF "start" \notin node_ids THEN ErrNoStart
    ELSE LET built == BuildAdjacency(nodes.items, 1, node_ids,
                                     [nid \in node_ids |-> <<>>]) IN
    IF ~built.ok THEN built
    ELSE LET visited == Traverse({}, <<"start">>, built.adjacency)
             unreachable == Unreachable(node_ids, visited)
         IN  IF unreachable # {} THEN ErrUnreachable(Sorted(unreachable))
             ELSE Accepted

Validate(doc) ==
    IF "title" \notin DOMAIN doc THEN ErrMissingKey("title")
    ELSE IF "nodes" \notin DOMAIN doc THEN ErrMissingKey("nodes")
    ELSE LET nodes == doc.nodes IN
    IF ~IsList(nodes) \/ Len(nodes.items) = 0 THEN ErrNodesNotNonEmptyList
    ELSE LET collected == CollectIds(nodes.items, 1, {}) IN
    IF ~collected.ok THEN collected
    ELSE LET node_ids == collected.node_ids IN
    IF "start" \notin node_ids THEN ErrNoStart
    ELSE LET built == BuildAdjacency(nodes.items, 1, node_ids,
                                     [nid \in node_ids |-> <<>>]) IN
    IF ~built.ok THEN built
    ELSE LET visited == Traverse({}, <<"start">>, built.adjacency)
             unreachable == Unreachable(node_ids, visited)
         IN  IF unreachable # {} THEN ErrUnreachable(Sorted(unreachable))
             ELSE Accepted

-----------------------------------------------------------------------------
(* The documents validate is applied to.  Three families, each wide in one *)
(* direction: GraphDocs in the shape of the graph, DefectDocs in which     *)
(* keys and values the document and its nodes carry, OptionDocs in the     *)
(* options list of a question.                                             *)

Ids == {"start", "n2", "n10"}
Ghost == "ghost"

LabelAt(j) == IF j = 1 THEN "Yes" ELSE IF j = 2 THEN "No" ELSE "Maybe"

Option(j, target) == [label |-> LabelAt(j), next |-> target]

Question(id, opts) ==
    [id |-> id, type |-> "question", text |-> "T", options |-> opts]
Step(id, next) == [id |-> id, type |-> "step", text |-> "T", next |-> next]
Resolution(id) == [id |-> id, type |-> "resolution", text |-> "T"]

SeqsUpTo(S, n) == UNION {[1..k -> S] : k \in 0..n}
NonEmptySeqsUpTo(S, n) == UNION {[1..k -> S] : k \in 1..n}

WithTitle(nodes) == [title |-> "T", description |-> "D", nodes |-> nodes]
WithoutTitle(nodes) == [nodes |-> nodes]

\* well-formed nodes; a question asks which of the two other nodes comes next
GraphNodes ==
    {Question(t[1], JList(<<Option(1, t[2]), Option(2, t[3])>>)) :
        t \in {u \in Ids \X Ids \X Ids : Cardinality(Range(u)) = 3}}
    \cup {Step(id, next) : id \in Ids, next \in Ids}
    \cup {Resolution(id) : id \in Ids}

GraphDocs ==
    {WithTitle(JList(ns)) : ns \in NonEmptySeqsUpTo(GraphNodes, MaxNodes)}

DefectIds == {"start", "n2"}

\* nodes that lack a required key
NodesMissingKey ==
    {[type |-> "step", text |-> "T", next |-> "start"],
     [id |-> "n2", text |-> "T"],
     [id |-> "n2", type |-> "resolution"],
     [text |-> "T"]}

\* nodes of every type, with the type's field absent, null, empty, dangling
\* or well formed
DefectNodes ==
    NodesMissingKey
    \cup {[id |-> id, type |-> "info", text |-> "T"] : id \in DefectIds}
    \cup {Resolution(id) : id \in DefectIds}
    \cup {Resolution(id) @@ [next |-> n] :
            id \in DefectIds, n \in {None, "", "start"}}
    \cup {Resolution(id) @@ [options |-> o] :
            id \in DefectIds, o \in {JList(<<>>), JList(<<Option(1, "start")>>)}}
    \cup {[id |-> id, type |-> "step", text |-> "T"] : id \in DefectIds}
    \cup {Step(id, n) : id \in DefectIds, n \in {None, "", "start", "n2", Ghost}}
    \cup {[id |-> id, type |-> "question", text |-> "T"] : id \in DefectIds}
    \cup {Question(id, o) :
            id \in DefectIds,
            o \in {JNull, JString("Yes/No"), JList(<<>>),
                   JList(<<Option(1, "start")>>),
                   JList(<<Option(1, "start"), Option(2, "n2")>>)}}

DefectDocs ==
    {WithTitle(JList(ns)) : ns \in SeqsUpTo(DefectNodes, MaxDefectNodes)}
    \cup {WithoutTitle(JList(ns)) : ns \in SeqsUpTo(DefectNodes, 1)}
    \cup {[title |-> "T", description |-> "D"], [description |-> "D"],
          WithTitle(JNull), WithTitle(JString("none")), WithoutTitle(JNull)}

\* what the j-th entry of an options list can be
OptionKinds == {"start", "n2", Ghost, "no label", "no next"}

OptionOfKind(j, kind) ==
    CASE kind = "no label" -> [next |-> "n2"]
      [] kind = "no next" -> [label |-> LabelAt(j)]
      [] OTHER -> Option(j, kind)

OptionLists ==
    {[j \in DOMAIN ks |-> OptionOfKind(j, ks[j])] :
        ks \in SeqsUpTo(OptionKinds, MaxOptions)}

OptionDocs ==
    {WithTitle(JList(<<Question("start", JList(opts)), Resolution("n2")>>)) :
        opts \in OptionLists}
    \cup {WithTitle(JList(<<Step("start", "n2"), Question("n2", JList(opts))>>)) :
            opts \in OptionLists}

Docs == GraphDocs \cup DefectDocs \cup OptionDocs

-----------------------------------------------------------------------------
(* The state machine: a caller holds a document and calls validate on it   *)

NotCalled == [ok |-> FALSE, error |-> "<validate not called>"]

\* no call has been made on the engine
NoCall == [op |-> "none"]

\* no engine is constructed while the builder validates
\* no second session
NoOtherSession ==
    /\ other_id = "start"
    /\ other_history = <<>>

\* None where a document is expected: self._tree_dict before any analysis
NoTree == [none |-> TRUE]

\* BuilderUI.__init__: no tree, nothing running, nothing scheduled
NoBuilder ==
    /\ builder_tree = NoTree
    /\ tree_written_by = "none"
    /\ listed = "none"
    /\ analysis = "idle"
    /\ analyses = 0
    /\ after_queue = <<>>
    /\ analyze_btn = "normal"
    /\ build = "idle"
    /\ build_btn = "normal"
    /\ packaged = NoTree

\* the names LibraryBuilder.build gives the tree files: the path of the
\* document within the source folder without ".docx", every character
\* other than a letter, a digit, "_" and "-" replaced by "_", and ".json"
LibraryRels == {"Net/a b.docx", "Net/a_b.docx", "c.docx"}

SafeStem(rel_str) ==
    CASE rel_str = "Net/a b.docx" -> "Net_a_b"
      [] rel_str = "Net/a_b.docx" -> "Net_a_b"
      [] rel_str = "c.docx"       -> "c"

TreeFilename(rel_str) == SafeStem(rel_str) \o ".json"

TreeFilenames == {TreeFilename(rel_str) : rel_str \in LibraryRels}

\* no library.json
NoLibrary == [none |-> TRUE]

\* BuilderUI.__init__: single-document mode, no manifest, nothing generated
NoBulk ==
    /\ mode = "single"
    /\ manifest = <<>>
    /\ generate = "idle"
    /\ lib_pos = 0
    /\ library_entries = <<>>
    /\ tree_files = [f \in TreeFilenames |-> NoTree]
    /\ library_json = NoLibrary

\* None where a category, an entry or a TreeEngine is expected
NoCategory == "<None>"
NoEntry == [none |-> TRUE]
NoTreeEngine == [none |-> TRUE]

\* the tree panel as _build_layout leaves it
Placeholder == [shows |-> "Select a tree from the list to begin."]

\* no library viewer
NoViewer ==
    /\ engine_entries = <<>>
    /\ trees_dir = [f \in TreeFilenames |-> NoTree]
    /\ active_category = NoCategory
    /\ search_var = ""
    /\ shown = <<>>
    /\ active_entry = NoEntry
    /\ tree_engine = NoTreeEngine
    /\ tree_panel = Placeholder

\* no file at a path, no manifest file, no call of ingest yet
NoFile == "<no file>"
NoManifestFile == [none |-> TRUE]
NoRun == [none |-> TRUE]

\* no bulk ingest: empty folders
NoIngest ==
    /\ source_files = [rel_str \in LibraryRels |-> NoFile]
    /\ docs_dir = [rel_str \in LibraryRels |-> NoFile]
    /\ manifest_file = NoManifestFile
    /\ ingest_last = NoRun
    /\ source_changes = 0

\* no viewer window: no button packed
NoWindow ==
    /\ nav_frame = <<>>
    /\ back_btn = "disabled"

\* no traversal under way
NoTraversal ==
    /\ trav_visited = {}
    /\ trav_queue = <<>>
    /\ visit_log = <<>>

\* the parts left aside are as the application starts them
AtRest ==
    /\ NoOtherSession /\ NoBuilder /\ NoBulk /\ NoViewer /\ NoIngest
    /\ NoWindow /\ NoTraversal

NoEngine ==
    /\ engine_nodes = <<>>
    /\ current_id = "start"
    /\ history = <<>>
    /\ last = NoCall

Init ==
    /\ tree_dict \in Docs
    /\ outcome = NotCalled
    /\ previous = NotCalled
    /\ calls = 0
    /\ NoEngine
    /\ AtRest

\* the traversal consumes the document's own nodes list as its work queue
ValidateCallConsumingNodes ==
    /\ calls < MaxCalls
    /\ outcome' = Validate(tree_dict)
    /\ previous' = outcome
    /\ calls' = calls + 1
    /\ tree_dict' = IF "nodes" \in DOMAIN tree_dict /\ IsList(tree_dict.nodes)
                    THEN [tree_dict EXCEPT !.nodes = JList(<<>>)]
                    ELSE tree_dict
    /\ UNCHANGED <<engineVars, restVars>>

\* validator.validate(tree_dict): reads the document, returns or raises
ValidateCall ==
    /\ calls < MaxCalls
    /\ outcome' = Validate(tree_dict)
    /\ previous' = outcome
    /\ calls' = calls + 1
    /\ UNCHANGED tree_dict
    /\ UNCHANGED <<engineVars, restVars>>

Next == ValidateCall

Spec == Init /\ [][Next]_vars

-----------------------------------------------------------------------------
(* The trees a TreeEngine is loaded with: documents validate accepts, with *)
(* one node per id, wide in the texts of the nodes (equal or distinct), in *)
(* the labels of the options (equal or distinct) and in the order of the   *)
(* nodes list.                                                             *)

EngineIds == <<"start", "n2", "n10">>

Texts == <<"Is it plugged in?", "Plug it in.", "Done.">>

Labels == {"Yes", "No", "yes"}

\* the label pairs of a question: the first node's options may share a label
LabelPairs(i) ==
    IF i = 1 THEN {<<"Yes", "No">>, <<"Yes", "Yes">>} ELSE {<<"Yes", "No">>}

\* a step to any node, or a resolution
LinearChoices(i, n) ==
    {Step(EngineIds[i], EngineIds[k]) : k \in 1..n} \cup {Resolution(EngineIds[i])}

\* what the node with the i-th id can be among n nodes, its text apart
NodeChoices(i, n) ==
    LET id == EngineIds[i]
        ids == {EngineIds[k] : k \in 1..n}
    IN  {Question(id, JList(<<[label |-> lp[1], next |-> t[1]],
                             [label |-> lp[2], next |-> t[2]]>>)) :
            lp \in LabelPairs(i), t \in {u \in ids \X ids : u[1] # u[2]}}
        \cup LinearChoices(i, n)

Reversed(s) == [k \in DOMAIN s |-> s[Len(s) + 1 - k]]

\* the node lists of n nodes, node i any of choices[i] with the p[i]-th text
NodeLists(n, p, choices) ==
    {[i \in 1..n |-> [c[i] EXCEPT !.text = Texts[p[i]]]] :
        c \in {f \in [1..n -> UNION {choices[i] : i \in 1..n}] :
                  \A i \in 1..n : f[i] \in choices[i]}}

\* every node its own text, in the order of the ids; questions anywhere but
\* at the last of three nodes
DistinctTextChoices(i, n) ==
    IF i = 3 THEN LinearChoices(i, n) ELSE NodeChoices(i, n)

DistinctTextDocs ==
    {WithTitle(JList(ns)) :
        ns \in UNION {NodeLists(n, [i \in 1..n |-> i],
                                [i \in 1..n |-> DistinctTextChoices(i, n)]) :
                         n \in 1..Len(EngineIds)}}

\* two nodes of three with the same text, in the order of the ids and in
\* the reverse order; a question at the first node only
SharedTextPatterns == {<<1, 1, 2>>, <<1, 2, 2>>}

SharedTextChoices(i, n) ==
    IF i = 1 THEN NodeChoices(i, n) ELSE LinearChoices(i, n)

SharedTextDocs ==
    {WithTitle(JList(IF backwards THEN Reversed(ns) ELSE ns)) :
        backwards \in BOOLEAN,
        ns \in UNION {NodeLists(Len(EngineIds), p,
                                [i \in 1..Len(EngineIds) |->
                                    SharedTextChoices(i, Len(EngineIds))]) :
                         p \in SharedTextPatterns}}

EngineDocs == DistinctTextDocs \cup SharedTextDocs

EngineTrees == {d \in EngineDocs : Validate(d).ok}

-----------------------------------------------------------------------------
(* TreeEngine (viewer/tree_engine.py).  self._nodes is a dict, which keeps *)
(* its keys in the order of their first insertion: it is a sequence of     *)
(* entries [id, node].  Every method is an operator from the engine's      *)
(* state to the cursor it leaves and what it returns or raises; each       *)
(* action applies one.                                                     *)

\* an index that keeps every node of the list, whatever its id
RECURSIVE IndexNodesKeepingAll(_, _, _)
IndexNodesKeepingAll(nodes, i, index) ==
    IF i > Len(nodes) THEN index
    ELSE IndexNodesKeepingAll(nodes, i + 1,
                              Append(index, [id |-> nodes[i].id, node |-> nodes[i]]))

\* {node["id"]: node for node in nodes}, from node i on: a key seen again
\* keeps its place and takes the later node
RECURSIVE IndexNodes(_, _, _)
IndexNodes(nodes, i, index) ==
    IF i > Len(nodes) THEN index
    ELSE IF \E k \in DOMAIN index : index[k].id = nodes[i].id
    THEN LET k == CHOOSE k \in DOMAIN index : index[k].id = nodes[i].id
         IN  IndexNodes(nodes, i + 1, [index EXCEPT ![k].node = nodes[i]])
    ELSE IndexNodes(nodes, i + 1,
                    Append(index, [id |-> nodes[i].id, node |-> nodes[i]]))

\* self._tree.get("nodes", [])
TreeNodes(tree) == IF "nodes" \in DOMAIN tree THEN tree.nodes.items ELSE <<>>

HasNode(index, id) == \E k \in DOMAIN index : index[k].id = id

\* self._nodes[id]
NodeAt(index, id) == index[CHOOSE k \in DOMAIN index : index[k].id = id].node

\* what a method leaves and gives: the cursor, and the value returned
\* ("None", "True", "False") or the exception raised
Gives(id, hist, result) ==
    [current_id |-> id, history |-> hist, result |-> result]

NotAQuestion == "ValueError: navigate() called on non-question node"
OptionNotFound == "ValueError: Option not found in node"
NotAStep == "ValueError: advance() called on non-step node"
NoSuchNode == "KeyError"

\* the scan of the options that leaves the first one out
RECURSIVE FirstMatchFromSecond(_, _, _)
FirstMatchFromSecond(options, j, option_label) ==
    IF j + 1 > Len(options) THEN 0
    ELSE IF options[j + 1].label = option_label THEN j + 1
    ELSE FirstMatchFromSecond(options, j + 1, option_label)

\* the last option of the list whose label is the given one; 0 when none is
RECURSIVE LastMatch(_, _, _)
LastMatch(options, j, option_label) ==
    IF j > Len(options) THEN 0
    ELSE LET later == LastMatch(options, j + 1, option_label)
         IN  IF later # 0 THEN later
             ELSE IF options[j].label = option_label THEN j ELSE 0

\* the first option of the list, from option j on, whose label is the given
\* one; 0 when none is
RECURSIVE FirstMatch(_, _, _)
FirstMatch(options, j, option_label) ==
    IF j > Len(options) THEN 0
    ELSE IF options[j].label = option_label THEN j
    ELSE FirstMatch(options, j + 1, option_label)

\* navigate that records the node before it looks for the option
NavigateRecordingFirst(index, id, hist, option_label) ==
    IF ~HasNode(index, id) THEN Gives(id, hist, NoSuchNode)
    ELSE LET node == NodeAt(index, id) IN
    IF node.type # "question" THEN Gives(id, hist, NotAQuestion)
    ELSE LET options == IF "options" \in DOMAIN node
                        THEN node.options.items ELSE <<>>
             j == FirstMatch(options, 1, option_label)
         IN  IF j # 0
             THEN Gives(options[j].next, Append(hist, node.text), "None")
             ELSE Gives(id, Append(hist, node.text), OptionNotFound)

\* TreeEngine.navigate
NavigateGives(index, id, hist, option_label) ==
    IF ~HasNode(index, id) THEN Gives(id, hist, NoSuchNode)
    ELSE LET node == NodeAt(index, id) IN
    IF node.type # "question" THEN Gives(id, hist, NotAQuestion)
    ELSE LET options == IF "options" \in DOMAIN node
                        THEN node.options.items ELSE <<>>
             j == FirstMatch(options, 1, option_label)
         IN  IF j # 0
             THEN Gives(options[j].next, Append(hist, node.text), "None")
             ELSE Gives(id, hist, OptionNotFound)

\* advance that refuses a step whose next is the step itself
AdvanceRefusingLoop(index, id, hist) ==
    IF ~HasNode(index, id) THEN Gives(id, hist, NoSuchNode)
    ELSE LET node == NodeAt(index, id) IN
    IF node.type # "step" \/ node.next = id THEN Gives(id, hist, NotAStep)
    ELSE Gives(node.next, Append(hist, node.text), "None")

\* advance that records the step and leaves the cursor on it
AdvanceWithoutMoving(index, id, hist) ==
    IF ~HasNode(index, id) THEN Gives(id, hist, NoSuchNode)
    ELSE LET node == NodeAt(index, id) IN
    IF node.type # "step" THEN Gives(id, hist, NotAStep)
    ELSE Gives(id, Append(hist, node.text), "None")

\* advance that records the node before it looks at its type
AdvanceRecordingFirst(index, id, hist) ==
    IF ~HasNode(index, id) THEN Gives(id, hist, NoSuchNode)
    ELSE LET node == NodeAt(index, id) IN
    IF node.type # "step" THEN Gives(id, Append(hist, node.text), NotAStep)
    ELSE Gives(node.next, Append(hist, node.text), "None")

\* advance that records the id of the step in place of its text
AdvanceRecordingId(index, id, hist) ==
    IF ~HasNode(index, id) THEN Gives(id, hist, NoSuchNode)
    ELSE LET node == NodeAt(index, id) IN
    IF node.type # "step" THEN Gives(id, hist, NotAStep)
    ELSE Gives(node.next, Append(hist, id), "None")

\* TreeEngine.advance
AdvanceGives(index, id, hist) ==
    IF ~HasNode(index, id) THEN Gives(id, hist, NoSuchNode)
    ELSE LET node == NodeAt(index, id) IN
    IF node.type # "step" THEN Gives(id, hist, NotAStep)
    ELSE Gives(node.next, Append(hist, node.text), "None")

\* reset that goes back to "start" and keeps the history
ResetKeepingHistory(index, id, hist) == Gives("start", hist, "None")

\* TreeEngine.reset
ResetGives(index, id, hist) == Gives("start", <<>>, "None")

\* is_complete that takes every node without options for a terminal one
IsCompleteWithoutOptions(index, id, hist) ==
    IF ~HasNode(index, id) THEN Gives(id, hist, NoSuchNode)
    ELSE Gives(id, hist,
               IF GetStr(NodeAt(index, id), "type") # "question"
               THEN "True" ELSE "False")

\* TreeEngine.is_complete
IsCompleteGives(index, id, hist) ==
    IF ~HasNode(index, id) THEN Gives(id, hist, NoSuchNode)
    ELSE Gives(id, hist,
               IF GetStr(NodeAt(index, id), "type") = "resolution"
               THEN "True" ELSE "False")

\* the key of the last entry whose node has the text; None when no entry has
RECURSIVE LastWithText(_, _, _)
LastWithText(index, k, target_text) ==
    IF k > Len(index) THEN None
    ELSE LET later == LastWithText(index, k + 1, target_text)
         IN  IF later # None THEN later
             ELSE IF index[k].node.text = target_text THEN index[k].id
             ELSE None

\* the key of the first entry, from entry k on, whose node has the text;
\* None when no entry has
RECURSIVE FirstWithText(_, _, _)
FirstWithText(index, k, target_text) ==
    IF k > Len(index) THEN None
    ELSE IF index[k].node.text = target_text THEN index[k].id
    ELSE FirstWithText(index, k + 1, target_text)

\* go_back that moves the cursor and keeps the history
GoBackKeepingHistory(index, id, hist) ==
    IF hist = <<>> THEN Gives(id, hist, "False")
    ELSE LET target_text == hist[Len(hist)]
             node_id == FirstWithText(index, 1, target_text)
         IN  IF node_id # None THEN Gives(node_id, hist, "True")
             ELSE Gives("start", hist, "True")

\* go_back that goes to "start" when there is nothing to go back to
GoBackToStartWhenEmpty(index, id, hist) ==
    IF hist = <<>> THEN Gives("start", hist, "False")
    ELSE LET target_text == hist[Len(hist)]
             popped == SubSeq(hist, 1, Len(hist) - 1)
             node_id == FirstWithText(index, 1, target_text)
         IN  IF node_id # None THEN Gives(node_id, popped, "True")
             ELSE Gives("start", popped, "True")

\* go_back that raises when no node has the text
GoBackRaisingOnNoMatch(index, id, hist) ==
    IF hist = <<>> THEN Gives(id, hist, "False")
    ELSE LET target_text == hist[Len(hist)]
             popped == SubSeq(hist, 1, Len(hist) - 1)
             node_id == FirstWithText(index, 1, target_text)
         IN  IF node_id # None THEN Gives(node_id, popped, "True")
             ELSE Gives(id, hist, NoSuchNode)

\* go_back that does not leave a resolution
GoBackStayingOnResolution(index, id, hist) ==
    IF hist = <<>> THEN Gives(id, hist, "False")
    ELSE IF HasNode(index, id) /\ NodeAt(index, id).type = "resolution"
    THEN Gives(id, hist, "False")
    ELSE LET target_text == hist[Len(hist)]
             popped == SubSeq(hist, 1, Len(hist) - 1)
             node_id == FirstWithText(index, 1, target_text)
         IN  IF node_id # None THEN Gives(node_id, popped, "True")
             ELSE Gives("start", popped, "True")

\* go_back that always returns to "start"
GoBackAlwaysToStart(index, id, hist) ==
    IF hist = <<>> THEN Gives(id, hist, "False")
    ELSE Gives("start", SubSeq(hist, 1, Len(hist) - 1), "True")

\* TreeEngine.go_back
GoBackGives(index, id, hist) ==
    IF hist = <<>> THEN Gives(id, hist, "False")
    ELSE LET target_text == hist[Len(hist)]
             popped == SubSeq(hist, 1, Len(hist) - 1)
             node_id == FirstWithText(index, 1, target_text)
         IN  IF node_id # None THEN Gives(node_id, popped, "True")
             ELSE Gives("start", popped, "True")

\* a step number that counts from 0
StepNumberFromZero(hist) == Len(hist)

\* TreeEngine.current_step_number
CurrentStepNumber(hist) == Len(hist) + 1

\* TreeEngine.approximate_total_steps
ApproximateTotalSteps(index) == Len(index)

\* a call of a method: the cursor it leaves, and the record of the call
Call(op, arg, gives) ==
    /\ Len(gives.history) <= MaxHistory
    /\ current_id' = gives.current_id
    /\ history' = gives.history
    /\ last' = [op |-> op, arg |-> arg, result |-> gives.result,
                from_id |-> current_id, from_history |-> history,
                session |-> "this"]
    /\ UNCHANGED <<engine_nodes, validatorVars, restVars>>

\* TreeEngine.__init__ on a tree.json the builder validated and packaged
InitEngine ==
    /\ tree_dict \in EngineTrees
    /\ outcome = Validate(tree_dict)
    /\ previous = NotCalled
    /\ calls = 1
    /\ engine_nodes = IndexNodes(TreeNodes(tree_dict), 1, <<>>)
    /\ current_id = "start"
    /\ history = <<>>
    /\ last = NoCall
    /\ AtRest

Navigate(option_label) ==
    Call("navigate", option_label,
         NavigateGives(engine_nodes, current_id, history, option_label))

Advance == Call("advance", None, AdvanceGives(engine_nodes, current_id, history))

Reset == Call("reset", None, ResetGives(engine_nodes, current_id, history))

GoBack == Call("go_back", None, GoBackGives(engine_nodes, current_id, history))

IsComplete ==
    Call("is_complete", None, IsCompleteGives(engine_nodes, current_id, history))

NextEngine ==
    \/ \E option_label \in Labels : Navigate(option_label)
    \/ Advance
    \/ Reset
    \/ GoBack
    \/ IsComplete

SpecEngine == InitEngine /\ [][NextEngine]_vars

\* get_current_node returns the node dict itself, not a copy: whoever holds
\* it can assign its "text", and the engine reads the new text from then
\* on.  The tree.json on disk keeps the text it was loaded with.
EditedText == "Check the fuse."

Edited(index) == {k \in DOMAIN index : index[k].node.text = EditedText}

EditText(k) ==
    /\ Cardinality(Edited(engine_nodes)) < MaxEdits
    /\ engine_nodes[k].node.text # EditedText
    /\ engine_nodes' = [engine_nodes EXCEPT ![k].node.text = EditedText]
    /\ last' = [op |-> "edit", arg |-> engine_nodes[k].id, result |-> "None",
                from_id |-> current_id, from_history |-> history]
    /\ UNCHANGED <<current_id, history, validatorVars, restVars>>

NextEngineEdited ==
    \/ NextEngine
    \/ \E k \in DOMAIN engine_nodes : EditText(k)

SpecEngineEdited == InitEngine /\ [][NextEngineEdited]_vars

-----------------------------------------------------------------------------
(* Two TreeEngine sessions over the same tree.  __init__ gives every       *)
(* instance its own _current_id and _history; the nodes are the same.      *)

\* the trees two sessions are run on
SessionTrees == {d \in EngineTrees : Len(TreeNodes(d)) < Len(EngineIds)}

InitSessions ==
    /\ InitEngine
    /\ tree_dict \in SessionTrees

\* a call on a cursor that both sessions share
OtherCallOnSharedCursor(op, arg, gives) ==
    /\ Len(gives.history) <= MaxHistory
    /\ other_id' = gives.current_id
    /\ other_history' = gives.history
    /\ current_id' = gives.current_id
    /\ history' = gives.history
    /\ last' = [op |-> op, arg |-> arg, result |-> gives.result,
                from_id |-> other_id, from_history |-> other_history,
                session |-> "other"]
    /\ UNCHANGED <<engine_nodes, validatorVars, builderVars, libraryVars,
                   viewerVars, ingestVars, windowVars, traversalVars>>

\* a call of a method on the second session
OtherCall(op, arg, gives) ==
    /\ Len(gives.history) <= MaxHistory
    /\ other_id' = gives.current_id
    /\ other_history' = gives.history
    /\ last' = [op |-> op, arg |-> arg, result |-> gives.result,
                from_id |-> other_id, from_history |-> other_history,
                session |-> "other"]
    /\ UNCHANGED <<engine_nodes, current_id, history, validatorVars, builderVars,
                   libraryVars, viewerVars, ingestVars, windowVars,
                   traversalVars>>

OtherNavigate(option_label) ==
    OtherCall("navigate", option_label,
              NavigateGives(engine_nodes, other_id, other_history, option_label))

OtherAdvance ==
    OtherCall("advance", None, AdvanceGives(engine_nodes, other_id, other_history))

OtherReset ==
    OtherCall("reset", None, ResetGives(engine_nodes, other_id, other_history))

OtherGoBack ==
    OtherCall("go_back", None, GoBackGives(engine_nodes, other_id, other_history))

OtherIsComplete ==
    OtherCall("is_complete", None,
              IsCompleteGives(engine_nodes, other_id, other_history))

NextSessions ==
    \/ NextEngine
    \/ \E option_label \in Labels : OtherNavigate(option_label)
    \/ OtherAdvance
    \/ OtherReset
    \/ OtherGoBack
    \/ OtherIsComplete

SpecSessions == InitSessions /\ [][NextSessions]_vars

-----------------------------------------------------------------------------
(* Documents whose nodes share ids, from the validator to the viewer: the  *)
(* builder validates the document, and the viewer packaged with an         *)
(* accepted one loads it and navigates.                                    *)

DuplicateIds == {"start", "n2"}

\* what a node of such a document can be, its text apart
DuplicateIdChoices ==
    UNION {{Step(id, next) : next \in DuplicateIds}
           \cup {Resolution(id)}
           \cup {Question(id, JList(<<[label |-> "Yes", next |-> t[1]],
                                      [label |-> "No", next |-> t[2]]>>)) :
                    t \in {<<"start", "n2">>, <<"n2", "start">>}} :
              id \in DuplicateIds}

\* two or three nodes over two ids, the i-th node with the i-th text
DuplicateIdDocs ==
    {WithTitle(JList([i \in DOMAIN c |-> [c[i] EXCEPT !.text = Texts[i]]])) :
        c \in UNION {[1..n -> DuplicateIdChoices] : n \in 2..Len(Texts)}}

InitDuplicateIds ==
    /\ tree_dict \in DuplicateIdDocs
    /\ outcome = NotCalled
    /\ previous = NotCalled
    /\ calls = 0
    /\ NoEngine
    /\ AtRest

\* the engine has been constructed
Loaded == engine_nodes # <<>>

\* TreeEngine.__init__ on the tree.json of a document validate accepted
LoadEngine ==
    /\ outcome.ok
    /\ ~Loaded
    /\ engine_nodes' = IndexNodes(TreeNodes(tree_dict), 1, <<>>)
    /\ current_id' = "start"
    /\ history' = <<>>
    /\ last' = NoCall
    /\ UNCHANGED <<validatorVars, restVars>>

NextDuplicateIds ==
    \/ ValidateCall
    \/ LoadEngine
    \/ Loaded /\ NextEngine

SpecDuplicateIds == InitDuplicateIds /\ [][NextDuplicateIds]_vars

-----------------------------------------------------------------------------
(* TreeBuilder.validate step by step: its checks up to the adjacency map,  *)
(* then the traversal from "start" one round of the while loop at a time,  *)
(* then the report of the unreachable ids.                                 *)

\* validate up to the traversal: the error raised, or node_ids and the
\* adjacency map
ValidateUpToTraversal(doc) ==
    IF "title" \notin DOMAIN doc THEN ErrMissingKey("title")
    ELSE IF "nodes" \notin DOMAIN doc THEN ErrMissingKey("nodes")
    ELSE LET nodes == doc.nodes IN
    IF ~IsList(nodes) \/ Len(nodes.items) = 0 THEN ErrNodesNotNonEmptyList
    ELSE LET collected == CollectIds(nodes.items, 1, {}) IN
    IF ~collected.ok THEN collected
    ELSE LET node_ids == collected.node_ids IN
    IF "start" \notin node_ids THEN ErrNoStart
    ELSE LET built == BuildAdjacency(nodes.items, 1, node_ids,
                                     [nid \in node_ids |-> <<>>]) IN
    IF ~built.ok THEN built
    ELSE [ok |-> TRUE, node_ids |-> node_ids, adjacency |-> built.adjacency]

\* the documents traversed: lists of up to three nodes over three ids, and
\* lists with an id that comes twice; steps that lead to themselves, cycles
\* and unreachable nodes among them
TraversalDocs == EngineDocs \cup DuplicateIdDocs

\* a call of validate, up to `visited = set(); queue = ["start"]` or to the
\* error raised before
ValidateEnter ==
    /\ outcome = NotCalled
    /\ trav_queue = <<>>
    /\ visit_log = <<>>
    /\ LET checked == ValidateUpToTraversal(tree_dict) IN
       IF checked.ok
       THEN /\ trav_visited' = {}
            /\ trav_queue' = <<"start">>
            /\ UNCHANGED <<visit_log, outcome, previous, calls>>
       ELSE /\ outcome' = checked
            /\ previous' = outcome
            /\ calls' = calls + 1
            /\ UNCHANGED traversalVars
    /\ UNCHANGED <<tree_dict, engineVars, sessionVars, builderVars,
                   libraryVars, viewerVars, ingestVars, windowVars>>

\* one round of the loop without `if current in visited: continue`
TraverseStepRevisiting ==
    /\ trav_queue # <<>>
    /\ Len(visit_log) <= Len(TreeNodes(tree_dict))
    /\ LET current == trav_queue[Len(trav_queue)]
           rest == SubSeq(trav_queue, 1, Len(trav_queue) - 1)
       IN  /\ trav_visited' = trav_visited \cup {current}
           /\ visit_log' = Append(visit_log, current)
           /\ trav_queue' =
                  rest \o ValidateUpToTraversal(tree_dict).adjacency[current]
    /\ UNCHANGED <<validatorVars, engineVars, sessionVars, builderVars,
                   libraryVars, viewerVars, ingestVars, windowVars>>

\* one round of `while queue`: current = queue.pop(); a visited id is
\* passed over, any other is added to visited and its successors are
\* appended to the queue
TraverseStep ==
    /\ trav_queue # <<>>
    /\ LET current == trav_queue[Len(trav_queue)]
           rest == SubSeq(trav_queue, 1, Len(trav_queue) - 1)
       IN  IF current \in trav_visited
           THEN /\ trav_queue' = rest
                /\ UNCHANGED <<trav_visited, visit_log>>
           ELSE /\ trav_visited' = trav_visited \cup {current}
                /\ visit_log' = Append(visit_log, current)
                /\ trav_queue' =
                       rest \o ValidateUpToTraversal(tree_dict).adjacency[current]
    /\ UNCHANGED <<validatorVars, engineVars, sessionVars, builderVars,
                   libraryVars, viewerVars, ingestVars, windowVars>>

\* the loop has ended: unreachable = node_ids - visited, and validate
\* raises or returns True
ValidateReturn ==
    /\ outcome = NotCalled
    /\ trav_queue = <<>>
    /\ visit_log # <<>>
    /\ LET unreachable == Unreachable(ValidateUpToTraversal(tree_dict).node_ids,
                                      trav_visited)
       IN  outcome' = IF unreachable # {}
                      THEN ErrUnreachable(Sorted(unreachable))
                      ELSE Accepted
    /\ previous' = outcome
    /\ calls' = calls + 1
    /\ UNCHANGED <<tree_dict, traversalVars, engineVars, sessionVars,
                   builderVars, libraryVars, viewerVars, ingestVars,
                   windowVars>>

InitTraverse ==
    /\ tree_dict \in TraversalDocs
    /\ outcome = NotCalled
    /\ previous = NotCalled
    /\ calls = 0
    /\ NoEngine
    /\ AtRest

NextTraverse ==
    \/ ValidateEnter
    \/ TraverseStep
    \/ ValidateReturn

SpecTraverse == InitTraverse /\ [][NextTraverse]_vars

\* validate is sequential code: a call that has begun goes on to its next
\* statement
SpecTraverseFair == SpecTraverse /\ WF_vars(NextTraverse)

-----------------------------------------------------------------------------
(* The viewer's window (viewer/ui/viewer_ui.py): a ViewerUI over a         *)
(* TreeEngine.  A handler calls the engine and then _refresh, which packs  *)
(* the buttons of the node the engine is on.                               *)

\* the exceptions the engine raises
EngineErrors == {NotAQuestion, OptionNotFound, NotAStep, NoSuchNode}

\* a button of the navigation area: its text, the handler its command
\* calls and the label bound to the command (lbl)
NavButton(text, command, lbl) ==
    [text |-> text, command |-> command, lbl |-> lbl]

\* _update_nav that also packs the options of a node that is no question
UpdateNavOfAnyType(node) ==
    IF "options" \in DOMAIN node
    THEN [k \in DOMAIN node.options.items |->
             NavButton(node.options.items[k].label, "choose_option",
                       node.options.items[k].label)]
    ELSE <<NavButton("Next Step", "advance", None)>>

\* ViewerUI._update_nav: the buttons packed for a node, in order
UpdateNav(node) ==
    LET node_type == IF "type" \in DOMAIN node THEN node.type ELSE "question"
    IN  IF node_type = "question"
        THEN LET options == IF "options" \in DOMAIN node
                            THEN node.options.items ELSE <<>>
             IN  [k \in DOMAIN options |->
                     NavButton(options[k].label, "choose_option",
                               options[k].label)]
        ELSE IF node_type = "step"
        THEN <<NavButton("Next Step", "advance", None)>>
        ELSE IF node_type = "resolution"
        THEN <<NavButton("Start Over", "reset", None)>>
        ELSE <<>>

\* ViewerUI._refresh on an engine at id with history hist: the navigation
\* area, and the Back button enabled only if there is history
Refresh(index, id, hist) ==
    /\ nav_frame' = UpdateNav(NodeAt(index, id))
    /\ back_btn' = IF hist # <<>> THEN "normal" ELSE "disabled"

\* a handler of the window: the call of the engine, and then _refresh
\* unless the call raised
Handler(op, arg, gives) ==
    /\ Len(gives.history) <= MaxHistory
    /\ current_id' = gives.current_id
    /\ history' = gives.history
    /\ last' = [op |-> op, arg |-> arg, result |-> gives.result,
                from_id |-> current_id, from_history |-> history,
                session |-> "this"]
    /\ IF gives.result \in EngineErrors
       THEN UNCHANGED windowVars
       ELSE Refresh(engine_nodes, gives.current_id, gives.history)
    /\ UNCHANGED <<engine_nodes, validatorVars, sessionVars, builderVars,
                   libraryVars, viewerVars, ingestVars, traversalVars>>

\* what the command of a button calls on the engine
CommandGives(button) ==
    IF button.command = "choose_option"
    THEN NavigateGives(engine_nodes, current_id, history, button.lbl)
    ELSE IF button.command = "advance"
    THEN AdvanceGives(engine_nodes, current_id, history)
    ELSE ResetGives(engine_nodes, current_id, history)

CommandOp(button) ==
    IF button.command = "choose_option" THEN "navigate" ELSE button.command

\* a click on the k-th button of the navigation area: _choose_option(lbl),
\* _advance or _reset
PressNav(k) ==
    /\ k \in DOMAIN nav_frame
    /\ Handler(CommandOp(nav_frame[k]), nav_frame[k].lbl,
               CommandGives(nav_frame[k]))

\* a click on Back, which a disabled button does not deliver: _go_back
PressBack ==
    /\ back_btn = "normal"
    /\ Handler("go_back", None, GoBackGives(engine_nodes, current_id, history))

\* a click on Reset in the footer: _reset
PressReset ==
    Handler("reset", None, ResetGives(engine_nodes, current_id, history))

\* the trees a viewer is packaged with: those validate accepts
ViewerTrees == EngineTrees \cup {d \in DuplicateIdDocs : Validate(d).ok}

\* ViewerUI.__init__ on a new TreeEngine: _build_layout, then _refresh
InitViewerUI ==
    /\ tree_dict \in ViewerTrees
    /\ outcome = Validate(tree_dict)
    /\ previous = NotCalled
    /\ calls = 1
    /\ engine_nodes = IndexNodes(TreeNodes(tree_dict), 1, <<>>)
    /\ current_id = "start"
    /\ history = <<>>
    /\ last = NoCall
    /\ NoOtherSession /\ NoBuilder /\ NoBulk /\ NoViewer /\ NoIngest
    /\ NoTraversal
    /\ nav_frame = UpdateNav(NodeAt(engine_nodes, "start"))
    /\ back_btn = "disabled"

NextViewerUI ==
    \/ \E k \in DOMAIN nav_frame : PressNav(k)
    \/ PressBack
    \/ PressReset

SpecViewerUI == InitViewerUI /\ [][NextViewerUI]_vars

-----------------------------------------------------------------------------
(* The builder's window in single-document mode (builder/ui/builder_ui.py). *)
(* The window runs on the UI thread.  _run_analysis and _run_build start a *)
(* worker thread each; a worker hands work to the UI thread with after(),  *)
(* and the UI thread runs the scheduled callbacks one at a time.           *)

\* analyzer.analyze raised: no reply, or a reply that is not JSON
AnalysisFailed == [raised |-> "analyze"]

\* the documents the analyzer replies with: two that validate accepts, one
\* with a dangling reference, one without a title
AnalyzerDocs ==
    {WithTitle(JList(<<Step("start", "n2"), Resolution("n2")>>)),
     WithTitle(JList(<<Question("start", JList(<<Option(1, "n2"), Option(2, "start")>>)),
                       Resolution("n2")>>)),
     WithTitle(JList(<<Step("start", Ghost)>>)),
     WithoutTitle(JList(<<Resolution("start")>>))}

AnalyzerReplies == AnalyzerDocs \cup {AnalysisFailed}

\* what NodeEditDialog returns on Save: the text of the box, stripped
DialogResults == {EditedText, ""}

\* the nodes of the builder's tree whose text came from the dialog
EditedInBuilder ==
    IF builder_tree = NoTree THEN {}
    ELSE {k \in DOMAIN builder_tree.nodes.items :
             builder_tree.nodes.items[k].text \in DialogResults}

\* _run_analysis starting its worker without
\* self._analyze_btn.configure(state="disabled")
RunAnalysisLeavingButton ==
    /\ mode = "single"
    /\ analyze_btn = "normal"
    /\ analyses < MaxAnalyses
    /\ analysis' = "analyzing"
    /\ analyses' = analyses + 1
    /\ UNCHANGED <<builder_tree, tree_written_by, listed, after_queue,
                   analyze_btn, build, build_btn, packaged, validatorVars,
                   besidesBuilder>>

\* BuilderUI._run_analysis, up to the start of the worker thread
RunAnalysis ==
    /\ mode = "single"
    /\ analyze_btn = "normal"
    /\ analyses < MaxAnalyses
    /\ analyze_btn' = "disabled"
    /\ analysis' = "analyzing"
    /\ analyses' = analyses + 1
    /\ UNCHANGED <<builder_tree, tree_written_by, listed, after_queue, build,
                   build_btn, packaged, validatorVars, besidesBuilder>>

\* _run_analysis._worker, from ingest to the assignment of self._tree_dict
\* or to the except clause, which schedules a lambda that names exc
WorkerAnalyze(reply) ==
    /\ analysis = "analyzing"
    /\ IF reply = AnalysisFailed
       THEN /\ after_queue' = Append(after_queue, "on_analysis_error")
            /\ analysis' = "except"
            /\ UNCHANGED <<builder_tree, tree_written_by, listed, validatorVars>>
       ELSE /\ tree_dict' = reply
            /\ outcome' = Validate(reply)
            /\ previous' = outcome
            /\ calls' = calls + 1
            /\ IF Validate(reply).ok
               THEN /\ builder_tree' = reply
                    /\ tree_written_by' = "worker"
                    /\ listed' = IF listed = "none" THEN "none" ELSE "stale"
                    /\ analysis' = "assigned"
                    /\ UNCHANGED after_queue
               ELSE /\ after_queue' = Append(after_queue, "on_analysis_error")
                    /\ analysis' = "except"
                    /\ UNCHANGED <<builder_tree, tree_written_by, listed>>
    /\ UNCHANGED <<analyses, analyze_btn, build, build_btn, packaged,
                   besidesBuilder>>

\* _run_analysis._worker: self.after(0, self._on_analysis_success)
WorkerSchedule ==
    /\ analysis = "assigned"
    /\ after_queue' = Append(after_queue, "on_analysis_success")
    /\ analysis' = "idle"
    /\ UNCHANGED <<builder_tree, tree_written_by, listed, analyses, analyze_btn,
                   build, build_btn, packaged, validatorVars, besidesBuilder>>

\* _run_analysis._worker leaves its except clause, which unbinds exc, and
\* the thread ends
WorkerLeaveExcept ==
    /\ analysis = "except"
    /\ analysis' = "idle"
    /\ UNCHANGED <<builder_tree, tree_written_by, listed, analyses, after_queue,
                   analyze_btn, build, build_btn, packaged, validatorVars,
                   besidesBuilder>>

\* the lambda an except clause scheduled calls its handler with str(exc):
\* it finds exc bound only while the worker is still in that clause, and
\* raises NameError before the call of the handler once the worker left it
HandlerRuns(callback) ==
    /\ callback = "on_analysis_error" => analysis = "except"
    /\ callback = "on_build_error" => build = "except"

\* the UI thread runs the callback scheduled first: _on_analysis_success
\* (which fills the node list from self._tree_dict), _on_bulk_ingest_success,
\* _on_bulk_generate_success, _on_build_success, or the lambda of
\* _on_analysis_error or of _on_build_error
UiCallback ==
    /\ after_queue # <<>>
    /\ after_queue' = Tail(after_queue)
    /\ LET callback == Head(after_queue) IN
       /\ analyze_btn' = IF /\ callback \in {"on_analysis_success",
                                              "on_analysis_error"}
                            /\ HandlerRuns(callback)
                         THEN "normal" ELSE analyze_btn
       /\ build_btn' = IF /\ callback \in {"on_build_success", "on_build_error"}
                          /\ HandlerRuns(callback)
                       THEN "normal" ELSE build_btn
       /\ listed' = IF callback = "on_analysis_success" /\ builder_tree # NoTree
                    THEN "current" ELSE listed
    /\ UNCHANGED <<builder_tree, tree_written_by, analysis, analyses, build,
                   packaged, validatorVars, besidesBuilder>>

\* _edit_node that lets the dialog change the type of the node as well
EditNodeAndType(k, result) ==
    /\ mode = "single"
    /\ listed # "none"
    /\ builder_tree # NoTree
    /\ k \in DOMAIN builder_tree.nodes.items
    /\ Cardinality(EditedInBuilder) < MaxBuilderEdits
    /\ builder_tree.nodes.items[k].text \notin DialogResults
    /\ IF listed = "current"
       THEN /\ builder_tree' = [builder_tree EXCEPT !.nodes.items[k].text = result,
                                                    !.nodes.items[k].type = "step"]
            /\ tree_written_by' = "ui"
       ELSE UNCHANGED <<builder_tree, tree_written_by>>
    /\ listed' = "current"
    /\ UNCHANGED <<analysis, analyses, after_queue, analyze_btn, build,
                   build_btn, packaged, validatorVars, besidesBuilder>>

\* BuilderUI._edit_node on the Edit button of the k-th row, the dialog saved:
\* the row's node dict gets the text, and the list is filled again from
\* self._tree_dict.  A row still showing the tree of before a new analysis
\* holds a node of that former tree.
EditNode(k, result) ==
    /\ mode = "single"
    /\ listed # "none"
    /\ builder_tree # NoTree
    /\ k \in DOMAIN builder_tree.nodes.items
    /\ Cardinality(EditedInBuilder) < MaxBuilderEdits
    /\ builder_tree.nodes.items[k].text \notin DialogResults
    /\ IF listed = "current"
       THEN /\ builder_tree' = [builder_tree EXCEPT !.nodes.items[k].text = result]
            /\ tree_written_by' = "ui"
       ELSE UNCHANGED <<builder_tree, tree_written_by>>
    /\ listed' = "current"
    /\ UNCHANGED <<analysis, analyses, after_queue, analyze_btn, build,
                   build_btn, packaged, validatorVars, besidesBuilder>>

\* BuilderUI._run_build, up to the start of the worker thread (company
\* name, logo and output directory given); the model builds once
RunBuild ==
    /\ mode = "single"
    /\ builder_tree # NoTree
    /\ build_btn = "normal"
    /\ build = "idle"
    /\ packaged = NoTree
    /\ build_btn' = "disabled"
    /\ build' = "dumping"
    /\ UNCHANGED <<builder_tree, tree_written_by, listed, analysis, analyses,
                   after_queue, analyze_btn, packaged, validatorVars,
                   besidesBuilder>>

\* _run_build._worker: json.dump(self._tree_dict, tmp_f)
BuildWorkerDump ==
    /\ build = "dumping"
    /\ packaged' = builder_tree
    /\ build' = "packaging"
    /\ UNCHANGED <<builder_tree, tree_written_by, listed, analysis, analyses,
                   after_queue, analyze_btn, build_btn, validatorVars,
                   besidesBuilder>>

\* _run_build._worker: packager.build returns, or raises and the except
\* clause schedules a lambda that names exc
BuildWorkerFinish(built) ==
    /\ build = "packaging"
    /\ after_queue' = Append(after_queue,
                             IF built THEN "on_build_success" ELSE "on_build_error")
    /\ build' = IF built THEN "idle" ELSE "except"
    /\ UNCHANGED <<builder_tree, tree_written_by, listed, analysis, analyses,
                   analyze_btn, build_btn, packaged, validatorVars,
                   besidesBuilder>>

\* BuilderUI._switch_to_bulk.  The model follows a window through one mode:
\* it leaves single-document mode before anything was analysed.
SwitchToBulk ==
    /\ mode = "single"
    /\ analyses = 0
    /\ mode' = "bulk"
    /\ UNCHANGED <<manifest, generate, lib_pos, library_entries, tree_files,
                   library_json, builderVars, validatorVars, besidesLibrary>>

\* what BulkIngestor.ingest makes the category of a document: the first
\* folder of its path within the source folder, if it is in a folder
CategoryOf(rel_str) ==
    CASE rel_str = "Net/a b.docx" -> "Net"
      [] rel_str = "Net/a_b.docx" -> "Net"
      [] rel_str = "c.docx"       -> "Uncategorized"

\* the texts extracted from the documents, and str.strip of them
DocumentTexts == {"", " ", "Reboot the router."}

Strip(text) == IF text = " " THEN "" ELSE text

\* the manifests: entries in the order of insertion, one for a document
Manifests ==
    {m \in NonEmptySeqsUpTo([rel : LibraryRels, category : {"Net", "Uncategorized"},
                             text : DocumentTexts], MaxManifest) :
        /\ \A i \in DOMAIN m : m[i].category = CategoryOf(m[i].rel)
        /\ \A i, j \in DOMAIN m : m[i].rel = m[j].rel => i = j}

\* _run_bulk_ingest._worker once ingest returned: self._bulk_manifest =
\* manifest, and _on_bulk_ingest_success is scheduled
BulkIngestWorker(m) ==
    /\ mode = "bulk"
    /\ manifest = <<>>
    /\ manifest' = m
    /\ after_queue' = Append(after_queue, "on_bulk_ingest_success")
    /\ UNCHANGED <<mode, generate, lib_pos, library_entries, tree_files,
                   library_json, builder_tree, tree_written_by, listed,
                   analysis, analyses, analyze_btn, build, build_btn, packaged,
                   validatorVars, besidesLibrary>>

\* BuilderUI._run_bulk_generate, up to the start of the worker thread (API
\* key and output folder given), and LibraryBuilder.build up to its loop;
\* the model generates once
RunBulkGenerate ==
    /\ mode = "bulk"
    /\ manifest # <<>>
    /\ generate = "idle"
    /\ library_json = NoLibrary
    /\ generate' = "building"
    /\ lib_pos' = 0
    /\ library_entries' = <<>>
    /\ UNCHANGED <<mode, manifest, tree_files, library_json, builderVars,
                   validatorVars, besidesLibrary>>

\* the order LibraryBuilder.build goes through the manifest in: category by
\* category in sorted order, the entries of a category in manifest order
RECURSIVE InOrderOf(_, _)
InOrderOf(categories, m) ==
    IF categories = <<>> THEN <<>>
    ELSE SelectSeq(m, LAMBDA entry : entry.category = Head(categories))
         \o InOrderOf(Tail(categories), m)

BuildOrder(m) == InOrderOf(Sorted({m[i].category : i \in DOMAIN m}), m)

\* the entry of library.json for a document and its tree
LibraryEntry(entry, tree) ==
    [title       |-> tree.title,
     description |-> tree.description,
     category    |-> entry.category,
     tree_file   |-> "trees/" \o TreeFilename(entry.rel),
     source_doc  |-> "docs/" \o entry.rel,
     symptoms    |-> <<>>]

\* one round of the loop that saves the analyzer's document before it is
\* validated
LibraryBuildStepSavingFirst(reply) ==
    /\ generate = "building"
    /\ lib_pos < Len(manifest)
    /\ lib_pos' = lib_pos + 1
    /\ LET entry == BuildOrder(manifest)[lib_pos + 1] IN
       IF Strip(entry.text) = "" \/ reply = AnalysisFailed
       THEN UNCHANGED <<tree_files, library_entries, validatorVars>>
       ELSE /\ tree_dict' = reply
            /\ outcome' = Validate(reply)
            /\ previous' = outcome
            /\ calls' = calls + 1
            /\ tree_files' = [tree_files EXCEPT ![TreeFilename(entry.rel)] = reply]
            /\ IF Validate(reply).ok
               THEN library_entries' = Append(library_entries,
                                              LibraryEntry(entry, reply))
               ELSE UNCHANGED library_entries
    /\ UNCHANGED <<mode, manifest, generate, library_json, builderVars,
                   besidesLibrary>>

\* LibraryBuilder.build, one round of its loop: a document without text is
\* skipped, one whose analysis or validation raises is skipped, the tree of
\* any other is saved and entered in the list
LibraryBuildStep(reply) ==
    /\ generate = "building"
    /\ lib_pos < Len(manifest)
    /\ lib_pos' = lib_pos + 1
    /\ LET entry == BuildOrder(manifest)[lib_pos + 1] IN
       IF Strip(entry.text) = "" \/ reply = AnalysisFailed
       THEN UNCHANGED <<tree_files, library_entries, validatorVars>>
       ELSE /\ tree_dict' = reply
            /\ outcome' = Validate(reply)
            /\ previous' = outcome
            /\ calls' = calls + 1
            /\ IF Validate(reply).ok
               THEN /\ tree_files' = [tree_files EXCEPT
                                         ![TreeFilename(entry.rel)] = reply]
                    /\ library_entries' = Append(library_entries,
                                                 LibraryEntry(entry, reply))
               ELSE UNCHANGED <<tree_files, library_entries>>
    /\ UNCHANGED <<mode, manifest, generate, library_json, builderVars,
                   besidesLibrary>>

\* LibraryBuilder.build after its loop writes library.json, and
\* _run_bulk_generate._worker schedules _on_bulk_generate_success
LibraryBuildWrite ==
    /\ generate = "building"
    /\ lib_pos = Len(manifest)
    /\ library_json' = [entries |-> library_entries]
    /\ generate' = "idle"
    /\ after_queue' = Append(after_queue, "on_bulk_generate_success")
    /\ UNCHANGED <<mode, manifest, lib_pos, library_entries, tree_files,
                   builder_tree, tree_written_by, listed, analysis, analyses,
                   analyze_btn, build, build_btn, packaged, validatorVars,
                   besidesLibrary>>

\* _run_build._worker leaves its except clause, which unbinds exc, and the
\* thread ends
BuildWorkerLeaveExcept ==
    /\ build = "except"
    /\ build' = "idle"
    /\ UNCHANGED <<builder_tree, tree_written_by, listed, analysis, analyses,
                   after_queue, analyze_btn, build_btn, packaged, validatorVars,
                   besidesBuilder>>

InitBuilder ==
    /\ tree_dict = NoTree
    /\ outcome = NotCalled
    /\ previous = NotCalled
    /\ calls = 0
    /\ NoEngine
    /\ AtRest

NextBuilder ==
    \/ RunAnalysis
    \/ \E reply \in AnalyzerReplies : WorkerAnalyze(reply)
    \/ WorkerSchedule
    \/ WorkerLeaveExcept
    \/ UiCallback
    \/ \E k \in 1..MaxNodes, result \in DialogResults : EditNode(k, result)
    \/ RunBuild
    \/ BuildWorkerDump
    \/ \E built \in BOOLEAN : BuildWorkerFinish(built)
    \/ BuildWorkerLeaveExcept
    \/ SwitchToBulk
    \/ \E m \in Manifests : BulkIngestWorker(m)
    \/ RunBulkGenerate
    \/ \E reply \in AnalyzerReplies : LibraryBuildStep(reply)
    \/ LibraryBuildWrite

SpecBuilder == InitBuilder /\ [][NextBuilder]_vars

\* the worker threads run to their end and the Tk main loop runs every
\* callback that self.after(0, ...) scheduled; the user is not obliged to
\* press anything
BuilderThreadsRun ==
    /\ WF_vars(\E reply \in AnalyzerReplies : WorkerAnalyze(reply))
    /\ WF_vars(WorkerSchedule)
    /\ WF_vars(WorkerLeaveExcept)
    /\ WF_vars(UiCallback)
    /\ WF_vars(BuildWorkerDump)
    /\ WF_vars(\E built \in BOOLEAN : BuildWorkerFinish(built))
    /\ WF_vars(BuildWorkerLeaveExcept)

SpecBuilderFair == SpecBuilder /\ BuilderThreadsRun

-----------------------------------------------------------------------------
(* The library viewer (viewer/library_engine.py and                        *)
(* viewer/ui/library_viewer_ui.py): a LibraryEngine over a content folder, *)
(* and the window's handlers, all on the UI thread.                        *)

\* the trees validate accepts among those the analyzer replies with
ValidTrees == {d \in AnalyzerDocs : Validate(d).ok}

\* the content folders: a library.json of entries for distinct documents,
\* and for every tree file name a tree or no file
ViewerLibraries ==
    {es \in NonEmptySeqsUpTo({LibraryEntry([rel |-> r, category |-> CategoryOf(r)], t) :
                                 r \in LibraryRels, t \in ValidTrees}, MaxManifest) :
        \A i, j \in DOMAIN es : es[i].source_doc = es[j].source_doc => i = j}

\* LibraryEngine.get_entries_for_category
GetEntriesForCategory(es, category) ==
    SelectSeq(es, LAMBDA e : e.category = category)

\* what is typed in the search bar
SearchQueries == {"", " ", "t", "net"}

\* str.lower of the titles, the descriptions and the queries
Lower(str) ==
    CASE str = "T" -> "t"
      [] str = "D" -> "d"
      [] OTHER     -> str

\* `q in s` for a non-empty q and a string s of one character
Within(q, s) == q = s

\* LibraryEngine.search: the entries with the query in the title or the
\* description (no entry has symptoms), none for a blank query
Search(es, query) ==
    IF Strip(query) = "" THEN <<>>
    ELSE SelectSeq(es, LAMBDA e : \/ Within(Lower(query), Lower(e.title))
                                  \/ Within(Lower(query), Lower(e.description)))

\* LibraryEngine.load_tree: the tree of the file the entry names, or
\* FileNotFoundError
FileNotFound == [raised |-> "FileNotFoundError"]

LoadTree(entry, files) ==
    LET f == CHOOSE f \in TreeFilenames : entry.tree_file = "trees/" \o f
    IN  IF files[f] = NoTree THEN FileNotFound ELSE files[f]

\* TreeEngine(...): __init__ has no parameter besides self, so a call with
\* keyword arguments raises TypeError; a call without loads assets/tree.json
NewTreeEngine(keywords, assets_tree) ==
    IF keywords # {} THEN [raised |-> "TypeError"]
    ELSE IF assets_tree = NoTree THEN FileNotFound
    ELSE [nodes |-> IndexNodes(TreeNodes(assets_tree), 1, <<>>),
          current_id |-> "start", history |-> <<>>]

\* what _refresh_tree_panel puts in the tree panel: the placeholder, or the
\* entry's title and the engine's current node
RefreshTreePanel(engine, entry) ==
    IF engine = NoTreeEngine \/ entry = NoEntry THEN Placeholder
    ELSE [shows |-> "node", title |-> entry.title,
          node |-> NodeAt(engine.nodes, engine.current_id)]

\* LibraryViewerUI._select_category on a button of the sidebar
SelectCategory(category) ==
    /\ category \in {engine_entries[i].category : i \in DOMAIN engine_entries}
    /\ active_category' = category
    /\ search_var' = ""
    /\ shown' = GetEntriesForCategory(engine_entries, category)
    /\ UNCHANGED <<engine_entries, trees_dir, active_entry, tree_engine,
                   tree_panel, validatorVars, besidesViewer>>

\* LibraryViewerUI._on_search_change after the search bar was given a text
OnSearchChange(query) ==
    /\ search_var' = query
    /\ shown' = IF Strip(query) = ""
                THEN IF active_category # NoCategory
                     THEN GetEntriesForCategory(engine_entries, active_category)
                     ELSE <<>>
                ELSE Search(engine_entries, Strip(query))
    /\ UNCHANGED <<engine_entries, trees_dir, active_category, active_entry,
                   tree_engine, tree_panel, validatorVars, besidesViewer>>

\* LibraryViewerUI._open_tree on the k-th row of the entry list: a tree
\* that does not load is reported and the handler returns; the exception of
\* the TreeEngine call is not caught in the handler, which ends there
OpenTree(k) ==
    /\ k \in DOMAIN shown
    /\ active_entry' = shown[k]
    /\ LET loaded == LoadTree(shown[k], trees_dir)
           made   == NewTreeEngine({"tree_dict", "company_name"}, NoTree)
       IN  IF loaded = FileNotFound \/ "raised" \in DOMAIN made
           THEN UNCHANGED <<tree_engine, tree_panel>>
           ELSE /\ tree_engine' = made
                /\ tree_panel' = RefreshTreePanel(made, shown[k])
    /\ UNCHANGED <<engine_entries, trees_dir, active_category, search_var,
                   shown, validatorVars, besidesViewer>>

\* LibraryEngine.__init__ on a content folder and LibraryViewerUI.__init__
InitLibraryViewer ==
    /\ tree_dict = NoTree
    /\ outcome = NotCalled
    /\ previous = NotCalled
    /\ calls = 0
    /\ NoEngine
    /\ NoOtherSession
    /\ NoBuilder
    /\ NoBulk
    /\ NoIngest
    /\ NoWindow
    /\ NoTraversal
    /\ engine_entries \in ViewerLibraries
    /\ trees_dir \in [TreeFilenames -> ValidTrees \cup {NoTree}]
    /\ active_category = NoCategory
    /\ search_var = ""
    /\ shown = <<>>
    /\ active_entry = NoEntry
    /\ tree_engine = NoTreeEngine
    /\ tree_panel = Placeholder

NextLibraryViewer ==
    \/ \E category \in {"Net", "Uncategorized"} : SelectCategory(category)
    \/ \E query \in SearchQueries : OnSearchChange(query)
    \/ \E k \in 1..MaxManifest : OpenTree(k)

SpecLibraryViewer == InitLibraryViewer /\ [][NextLibraryViewer]_vars

-----------------------------------------------------------------------------
(* Bulk ingest (builder/bulk_ingestor.py): BulkIngestor.ingest over a      *)
(* source folder, into an output folder that is not under the source       *)
(* folder, and the changes a user makes to the source folder between calls. *)

\* what a .docx file holds: a document, or bytes python-docx cannot read
FileContents == {"docx1", "corrupt"}

\* BulkIngestor._hash_file: the SHA-256 hex digest of the file's bytes
HashFile(content) ==
    CASE content = "docx1"
           -> "592ab58f24ff09806afe5fd62a4372617b15f7ebe2b0b2c2367668505c30b39a"
      [] content = "corrupt"
           -> "11d510e067d2cdcd7559bd86d27a2f4c20babd43670346b97af99b522c1f0075"

\* DocumentIngestor.ingest as ingest calls it: the text, or "" and the
\* error that was caught
ExtractText(content) ==
    IF content = "docx1"
    THEN [text |-> "Reboot the router.", extract_error |-> ""]
    ELSE [text |-> "", extract_error |-> "Extraction error"]

\* src_path.stat().st_size
SizeOf(content) == IF content = "docx1" THEN 5 ELSE 7

\* BulkIngestor.scan: the files of the source folder, sorted by path
ScanOrder == <<"Net/a b.docx", "Net/a_b.docx", "c.docx">>

Scan(source) == SelectSeq(ScanOrder, LAMBDA rel_str : source[rel_str] # NoFile)

\* manifest.get(rel_str, {}).get("hash")
RecordedHash(m, rel_str) ==
    IF \E k \in DOMAIN m : m[k].rel = rel_str
    THEN m[CHOOSE k \in DOMAIN m : m[k].rel = rel_str].hash
    ELSE None

\* manifest[rel_str] = entry: a key of the dict keeps its place
PutEntry(m, entry) ==
    IF \E k \in DOMAIN m : m[k].rel = entry.rel
    THEN [m EXCEPT ![CHOOSE k \in DOMAIN m : m[k].rel = entry.rel] = entry]
    ELSE Append(m, entry)

\* the entry ingest makes for a file
ManifestEntry(rel_str, content) ==
    LET extracted == ExtractText(content)
        entry == [rel      |-> rel_str,
                  hash     |-> HashFile(content),
                  dest     |-> "docs/" \o rel_str,
                  category |-> CategoryOf(rel_str),
                  text     |-> extracted.text,
                  size     |-> SizeOf(content)]
    IN  IF extracted.extract_error # ""
        THEN [rel |-> entry.rel, hash |-> entry.hash, dest |-> entry.dest,
              category |-> entry.category, text |-> entry.text,
              size |-> entry.size, extract_error |-> extracted.extract_error]
        ELSE entry

\* one round of the loop that copies and indexes the file whatever the
\* manifest records
IngestFileAlwaysCopying(rel_str, content, run) ==
    [manifest  |-> PutEntry(run.manifest, ManifestEntry(rel_str, content)),
     docs      |-> [run.docs EXCEPT ![rel_str] = content],
     copied    |-> run.copied \cup {rel_str},
     extracted |-> run.extracted \cup {rel_str}]

\* ingest, one round of its loop: a file whose hash is the recorded one is
\* skipped, any other is copied, its text extracted and its entry written
IngestFile(rel_str, content, run) ==
    IF RecordedHash(run.manifest, rel_str) = HashFile(content) THEN run
    ELSE [manifest  |-> PutEntry(run.manifest, ManifestEntry(rel_str, content)),
          docs      |-> [run.docs EXCEPT ![rel_str] = content],
          copied    |-> run.copied \cup {rel_str},
          extracted |-> run.extracted \cup {rel_str}]

\* the loop of ingest from the i-th scanned file on
RECURSIVE IngestFiles(_, _, _, _)
IngestFiles(files, source, i, run) ==
    IF i > Len(files) THEN run
    ELSE IngestFiles(files, source, i + 1,
                     IngestFile(files[i], source[files[i]], run))

\* the manifest file: json.dumps writes the dict of str and int values with
\* its keys in order, and json.load gives an equal dict back; no file loads
\* as the empty manifest
LoadManifest(file) == IF file = NoManifestFile THEN <<>> ELSE file.entries

\* BulkIngestor.ingest
Ingest ==
    /\ LET loaded == LoadManifest(manifest_file)
           files  == Scan(source_files)
           run    == IngestFiles(files, source_files, 1,
                                 [manifest |-> loaded, docs |-> docs_dir,
                                  copied |-> {}, extracted |-> {}])
       IN  /\ docs_dir' = run.docs
           /\ manifest_file' = [entries |-> run.manifest]
           /\ ingest_last' = [source    |-> source_files,
                              loaded    |-> loaded,
                              copied    |-> run.copied,
                              extracted |-> run.extracted,
                              returned  |-> run.manifest]
    /\ UNCHANGED <<source_files, source_changes, validatorVars, besidesIngest>>

\* the user saves a file of the source folder, new or with other bytes
WriteSource(rel_str, content) ==
    /\ source_changes < MaxSourceChanges
    /\ source_files[rel_str] # content
    /\ source_files' = [source_files EXCEPT ![rel_str] = content]
    /\ source_changes' = source_changes + 1
    /\ UNCHANGED <<docs_dir, manifest_file, ingest_last, validatorVars,
                   besidesIngest>>

\* the user deletes a file of the source folder
DeleteSource(rel_str) ==
    /\ source_changes < MaxSourceChanges
    /\ source_files[rel_str] # NoFile
    /\ source_files' = [source_files EXCEPT ![rel_str] = NoFile]
    /\ source_changes' = source_changes + 1
    /\ UNCHANGED <<docs_dir, manifest_file, ingest_last, validatorVars,
                   besidesIngest>>

InitIngest ==
    /\ tree_dict = NoTree
    /\ outcome = NotCalled
    /\ previous = NotCalled
    /\ calls = 0
    /\ NoEngine
    /\ NoOtherSession
    /\ NoBuilder
    /\ NoBulk
    /\ NoViewer
    /\ NoWindow
    /\ NoTraversal
    /\ source_files \in [LibraryRels -> FileContents \cup {NoFile}]
    /\ docs_dir = [rel_str \in LibraryRels |-> NoFile]
    /\ manifest_file = NoManifestFile
    /\ ingest_last = NoRun
    /\ source_changes = 0

NextIngest ==
    \/ Ingest
    \/ \E rel_str \in LibraryRels, content \in FileContents :
           WriteSource(rel_str, content)
    \/ \E rel_str \in LibraryRels : DeleteSource(rel_str)

SpecIngest == InitIngest /\ [][NextIngest]_vars

-----------------------------------------------------------------------------
(* What the properties speak of: the graph a document describes, stated    *)
(* from the document alone, and the rules of the data model.               *)

NodesOf(doc) == doc.nodes.items

NodeIdsOf(doc) == {n.id : n \in Range(NodesOf(doc))}

\* the ids a node points to by option.next or next
SuccessorsOf(n) ==
    IF n.type = "question" THEN {o.next : o \in Range(n.options.items)}
    ELSE IF n.type = "step" THEN {n.next}
    ELSE {}

EdgesOf(doc) ==
    UNION {{<<n.id, t>> : t \in SuccessorsOf(n)} : n \in Range(NodesOf(doc))}

\* the least set that holds S and is closed under the edges
RECURSIVE ClosureOf(_, _)
ClosureOf(S, edges) ==
    LET T == S \cup {e[2] : e \in {f \in edges : f[1] \in S}}
    IN  IF T = S THEN S ELSE ClosureOf(T, edges)

ReachableIds(doc) == ClosureOf({"start"}, EdgesOf(doc))

NodeTypes == {"question", "step", "resolution"}

\* the rule of its type that a node (with id, type and text) breaks, if any
BreaksTypeRule(n, ids) ==
    CASE n.type = "question" ->
            \/ "options" \notin DOMAIN n
            \/ ~IsList(n.options)
            \/ Len(n.options.items) < 2
            \/ \E o \in Range(n.options.items) :
                  \/ "label" \notin DOMAIN o
                  \/ "next" \notin DOMAIN o
                  \/ o.next \notin ids
      [] n.type = "step" ->
            \/ "next" \notin DOMAIN n
            \/ n.next \in {None, ""}
            \/ n.next \notin ids
      [] n.type = "resolution" ->
            \/ "next" \in DOMAIN n /\ n.next \notin {None, ""}
            \/ "options" \in DOMAIN n /\ TruthyVal(n.options)
      [] OTHER -> TRUE

\* whether the document breaks a rule; asked only of a document that breaks
\* none of the rules its keys and nodes must satisfy for the question to
\* make sense (title, nodes, node keys, in this order; reachability last)
Violates(rule, doc) ==
    CASE rule = "title" -> "title" \notin DOMAIN doc
      [] rule = "nodes" ->
            \/ "nodes" \notin DOMAIN doc
            \/ ~IsList(doc.nodes)
            \/ doc.nodes.items = <<>>
      [] rule = "node keys" ->
            \E n \in Range(NodesOf(doc)) : ~({"id", "type", "text"} \subseteq DOMAIN n)
      [] rule = "type rules" ->
            \E n \in Range(NodesOf(doc)) : BreaksTypeRule(n, NodeIdsOf(doc))
      [] rule = "start" -> "start" \notin NodeIdsOf(doc)
      [] rule = "reachability" -> ReachableIds(doc) # NodeIdsOf(doc)

RECURSIVE FirstViolated(_, _)
FirstViolated(order, doc) ==
    IF order = <<>> THEN "none"
    ELSE IF Violates(Head(order), doc) THEN Head(order)
    ELSE FirstViolated(Tail(order), doc)

\* the rule an outcome of validate reports
RuleOf(o) ==
    IF o.ok THEN "none"
    ELSE CASE o.error = "Tree is missing required key" ->
                IF o.key = "title" THEN "title" ELSE "nodes"
           [] o.error = "'nodes' must be a non-empty list" -> "nodes"
           [] o.error = "Node is missing required key" -> "node keys"
           [] o.error = "Tree must contain a node with id 'start'" -> "start"
           [] o.error = "The following nodes are unreachable from 'start'" ->
                "reachability"
           [] OTHER -> "type rules"

OrderOfSection41 ==
    <<"title", "nodes", "node keys", "type rules", "start", "reachability">>

OrderStartFirst ==
    <<"title", "nodes", "node keys", "start", "type rules", "reachability">>

Called == calls > 0

-----------------------------------------------------------------------------
(* Properties *)

\* C1: whenever validate accepts a document, every node id of the document
\* is reachable from "start" along option.next and next links: the reachable
\* id set equals the full node id set.
C1_AcceptedIsReachable ==
    outcome.ok => ReachableIds(tree_dict) = NodeIdsOf(tree_dict)

\* an accepted document with three ids, a question among its nodes and a
\* step among them
C1_Witness ==
    /\ outcome.ok
    /\ Cardinality(NodeIdsOf(tree_dict)) = 3
    /\ \E n \in Range(NodesOf(tree_dict)) : n.type = "question"
    /\ \E n \in Range(NodesOf(tree_dict)) : n.type = "step"

\* C2 as stated: validate reports the first violation in the order title,
\* nodes, node keys, type rules, "start", reachability; a type-rule violation
\* wins over a missing "start".
C2_FailFastTypeRulesBeforeStart ==
    Called => RuleOf(outcome) = FirstViolated(OrderOfSection41, tree_dict)

\* C2 amended: validate reports the first violation in the order title,
\* nodes, node keys, "start", type rules, reachability; a missing "start"
\* wins over a type-rule violation.  The rule of a resolution node is the
\* one validate applies: no non-empty next, no non-empty options.
C2_FailFastStartBeforeTypeRules ==
    Called => RuleOf(outcome) = FirstViolated(OrderStartFirst, tree_dict)

\* a document with no "start" node and a node that breaks its type's rule,
\* on which validate has reported the missing "start"
C2_Witness ==
    /\ Called
    /\ outcome = ErrNoStart
    /\ Violates("type rules", tree_dict)

\* C3 as stated: validate of {"nodes": []} fails with "'nodes' must be a
\* non-empty list".
C3_EmptyNodesAloneCitesNodes ==
    (Called /\ tree_dict = WithoutTitle(JList(<<>>)))
        => outcome = ErrNodesNotNonEmptyList

\* C3 amended: validate of {"nodes": []} fails with the error that the key
\* 'title' is missing; of a document with a title and an empty nodes list,
\* with "'nodes' must be a non-empty list".
C3_EmptyNodesCitesTitleFirst ==
    Called =>
        /\ tree_dict = WithoutTitle(JList(<<>>))
              => outcome = ErrMissingKey("title")
        /\ ("title" \in DOMAIN tree_dict /\ "nodes" \in DOMAIN tree_dict
              /\ tree_dict.nodes = JList(<<>>))
              => outcome = ErrNodesNotNonEmptyList

\* validate has been applied to {"nodes": []}
C3_Witness ==
    /\ Called
    /\ tree_dict = WithoutTitle(JList(<<>>))
    /\ ~outcome.ok

\* C4: whenever validate accepts a document, every step's next and every
\* question option's next is the id of a node of the document.
C4_NoDanglingReference ==
    outcome.ok =>
        \A n \in Range(NodesOf(tree_dict)) :
            /\ n.type = "step" => n.next \in NodeIdsOf(tree_dict)
            /\ n.type = "question" =>
                  \A o \in Range(n.options.items) : o.next \in NodeIdsOf(tree_dict)

\* an accepted document with a step node and a question node with two options
C4_Witness ==
    /\ outcome.ok
    /\ \E n \in Range(NodesOf(tree_dict)) :
          n.type = "question" /\ Len(n.options.items) = 2
    /\ \E n \in Range(NodesOf(tree_dict)) :
          n.type = "step" /\ n.next # n.id

\* C5: validate rejects every resolution node that carries a next field or
\* an options field, whatever the field's value: an accepted document has no
\* resolution node with either key.
C5_ResolutionCarriesNoField ==
    outcome.ok =>
        \A n \in Range(NodesOf(tree_dict)) :
            n.type = "resolution" =>
                "next" \notin DOMAIN n /\ "options" \notin DOMAIN n

\* C6: validate rejects every question node whose options is missing, not a
\* list or shorter than 2, or holds an option without label or next; every
\* question of an accepted document has at least 2 options, each with a
\* label and a target id.
C6_QuestionHasTwoFullOptions ==
    outcome.ok =>
        \A n \in Range(NodesOf(tree_dict)) :
            n.type = "question" =>
                /\ "options" \in DOMAIN n
                /\ IsList(n.options)
                /\ Len(n.options.items) >= 2
                /\ \A o \in Range(n.options.items) :
                      "label" \in DOMAIN o /\ "next" \in DOMAIN o

\* an accepted document whose "start" node is a question
C6_Witness ==
    /\ outcome.ok
    /\ \E n \in Range(NodesOf(tree_dict)) : n.type = "question" /\ n.id = "start"

\* C7: validate rejects every step node whose next is absent or empty; every
\* step of an accepted document has one non-empty successor id.
C7_StepHasNonEmptyNext ==
    outcome.ok =>
        \A n \in Range(NodesOf(tree_dict)) :
            n.type = "step" =>
                "next" \in DOMAIN n /\ n.next # None /\ n.next # ""

\* an accepted document whose "start" node is a step
C7_Witness ==
    /\ outcome.ok
    /\ \E n \in Range(NodesOf(tree_dict)) : n.type = "step" /\ n.id = "start"

\* C8: validate rejects every node whose type is not question, step or
\* resolution; every node of an accepted document has one of the three.
C8_KnownTypesOnly ==
    outcome.ok =>
        \A n \in Range(NodesOf(tree_dict)) : n.type \in NodeTypes

\* an accepted document with nodes of all three types
C8_Witness ==
    /\ outcome.ok
    /\ {n.type : n \in Range(NodesOf(tree_dict))} = NodeTypes

\* C9: when validate fails on reachability, the ids the error lists are
\* exactly the node ids not reachable from "start", in ascending
\* lexicographic order.
C9_UnreachableListedSorted ==
    (~outcome.ok
        /\ outcome.error = "The following nodes are unreachable from 'start'")
    => /\ Range(outcome.ids) = NodeIdsOf(tree_dict) \ ReachableIds(tree_dict)
       /\ \A i, j \in DOMAIN outcome.ids :
             i < j => StrLess(outcome.ids[i], outcome.ids[j])

\* validate has failed on reachability and listed two ids
C9_Witness ==
    /\ ~outcome.ok
    /\ outcome.error = "The following nodes are unreachable from 'start'"
    /\ Len(outcome.ids) = 2

-----------------------------------------------------------------------------
(* Properties of TreeEngine, each checked under SpecEngine unless said     *)
(* otherwise.  `last` is the latest call: the method, its argument, what   *)
(* it gave, and the cursor it was called on.                               *)

\* the nodes as __init__ indexed them
LoadedNodes == IndexNodes(TreeNodes(tree_dict), 1, <<>>)

\* the engine is as __init__ left it
AsConstructed ==
    /\ current_id = "start"
    /\ history = <<>>
    /\ engine_nodes = LoadedNodes

\* the latest call left the cursor where it was
CursorUnchanged ==
    /\ current_id = last.from_id
    /\ history = last.from_history

\* C11: after any calls of navigate, advance and go_back, passing or
\* failing, reset leaves the engine in its initial state, current id
\* "start" and empty history; so does a reset after a reset.
C11_ResetRestoresInitialState ==
    last.op = "reset" => AsConstructed /\ last.result = "None"

\* reset has been called on a cursor that had left "start" with two entries
\* in the history
C11_Witness ==
    /\ last.op = "reset"
    /\ last.from_id # "start"
    /\ Len(last.from_history) = 2

\* the latest call was a navigate or an advance
MovedForward == last.op \in {"navigate", "advance"}

\* C12: current_step_number is the length of the history plus one: 1 on a
\* new or reset engine, one more after each navigate or advance that
\* passes, and the same after one that fails.
C12_StepNumberCountsForwardMoves ==
    /\ CurrentStepNumber(history) = Len(history) + 1
    /\ last.op \in {"none", "reset"} => CurrentStepNumber(history) = 1
    /\ (MovedForward /\ last.result = "None")
         => CurrentStepNumber(history) = CurrentStepNumber(last.from_history) + 1
    /\ (MovedForward /\ last.result # "None")
         => CurrentStepNumber(history) = CurrentStepNumber(last.from_history)

\* a third forward move in a row has passed and the step number is 4
C12_Witness ==
    /\ last.op = "advance"
    /\ last.result = "None"
    /\ Len(last.from_history) = 2
    /\ CurrentStepNumber(history) = 4

\* the type the document gives the node with the id
TypeInDocument(id) ==
    LET nodes == TreeNodes(tree_dict)
    IN  nodes[CHOOSE k \in DOMAIN nodes : nodes[k].id = id].type

\* C13: in every state the engine reaches, is_complete returns True if and
\* only if the node at the current id has type "resolution", and the call
\* changes neither the current id nor the history.
C13_CompleteIffResolution ==
    /\ IsCompleteGives(engine_nodes, current_id, history).result = "True"
         <=> TypeInDocument(current_id) = "resolution"
    /\ last.op = "is_complete"
         => /\ CursorUnchanged
            /\ last.result \in {"True", "False"}
            /\ last.result = "True" <=> TypeInDocument(current_id) = "resolution"

\* is_complete has returned False on a step the cursor had moved to
C13_Witness ==
    /\ last.op = "is_complete"
    /\ last.result = "False"
    /\ history # <<>>
    /\ TypeInDocument(current_id) = "step"

\* the node the document gives the id
NodeInDocument(id) ==
    LET nodes == TreeNodes(tree_dict)
    IN  nodes[CHOOSE k \in DOMAIN nodes : nodes[k].id = id]

\* the labels of the options of a question of the document
OptionLabels(node) == {node.options.items[j].label : j \in DOMAIN node.options.items}

\* C14: navigate raises exactly when the current node is not a question or
\* none of its options has the given label, and a navigate that raises
\* leaves the current id and the history as they were.
C14_NavigateFailsExactlyOffQuestionOrLabel ==
    last.op = "navigate"
    => LET node == NodeInDocument(last.from_id)
       IN  /\ last.result \in {"None", NotAQuestion, OptionNotFound}
           /\ last.result = NotAQuestion <=> node.type # "question"
           /\ last.result = OptionNotFound
                <=> (node.type = "question" /\ last.arg \notin OptionLabels(node))
           /\ last.result # "None" => CursorUnchanged

\* navigate("yes") has raised on a question that has the option "Yes",
\* reached after a first move
C14_Witness ==
    /\ last.op = "navigate"
    /\ last.arg = "yes"
    /\ last.result = OptionNotFound
    /\ "Yes" \in OptionLabels(NodeInDocument(last.from_id))
    /\ history # <<>>

\* C15: advance raises exactly when the current node is not a step, that
\* is on a question or a resolution, and an advance that raises leaves the
\* current id and the history as they were.
C15_AdvanceFailsExactlyOffStep ==
    last.op = "advance"
    => /\ last.result \in {"None", NotAStep}
       /\ last.result = NotAStep
            <=> NodeInDocument(last.from_id).type \in {"question", "resolution"}
       /\ last.result = NotAStep <=> NodeInDocument(last.from_id).type # "step"
       /\ last.result # "None" => CursorUnchanged

\* advance has raised on a resolution reached after two moves
C15_Witness ==
    /\ last.op = "advance"
    /\ last.result = NotAStep
    /\ NodeInDocument(last.from_id).type = "resolution"
    /\ Len(history) = 2

\* C16: a navigate that passes has taken the first option, in the order of
\* the options, whose label is exactly the argument: the history is the
\* former history with the text of the question appended, and the current
\* id is the next of that option, also when a later option has the label.
C16_NavigateTakesFirstMatchingOption ==
    (last.op = "navigate" /\ last.result = "None")
    => LET node == NodeInDocument(last.from_id)
           options == node.options.items
       IN  /\ node.type = "question"
           /\ \E j \in DOMAIN options :
                 /\ options[j].label = last.arg
                 /\ \A i \in 1..(j - 1) : options[i].label # last.arg
                 /\ current_id = options[j].next
           /\ history = Append(last.from_history, node.text)

\* navigate("Yes") has passed on a question whose two options are both
\* labelled "Yes" and lead to different nodes
C16_Witness ==
    /\ last.op = "navigate"
    /\ last.result = "None"
    /\ last.arg = "Yes"
    /\ LET options == NodeInDocument(last.from_id).options.items
       IN  /\ options[1].label = "Yes"
           /\ options[2].label = "Yes"
           /\ options[1].next # options[2].next
    /\ last.from_history # <<>>

\* C17: an advance that passes was called on a step: the history is the
\* former history with the text of the step appended, and the current id
\* is the next of the step.
C17_AdvanceFollowsNext ==
    (last.op = "advance" /\ last.result = "None")
    => LET node == NodeInDocument(last.from_id)
       IN  /\ node.type = "step"
           /\ current_id = node.next
           /\ history = Append(last.from_history, node.text)

\* advance has passed on a step other than "start", with a history of one
\* entry, and has led to another node
C17_Witness ==
    /\ last.op = "advance"
    /\ last.result = "None"
    /\ last.from_id # "start"
    /\ Len(last.from_history) = 1
    /\ current_id # last.from_id

\* C18: go_back on an empty history returns False and leaves the current
\* id and the history as they were, on whatever node the cursor is.
C18_GoBackOnEmptyHistoryIsNoOp ==
    (last.op = "go_back" /\ last.from_history = <<>>)
    => /\ last.result = "False"
       /\ CursorUnchanged

\* go_back has been called on an empty history with the cursor on a node
\* other than "start"
C18_Witness ==
    /\ last.op = "go_back"
    /\ last.from_history = <<>>
    /\ last.from_id # "start"
    /\ last.result = "False"

\* the history without its last entry
WithoutLast(hist) == SubSeq(hist, 1, Len(hist) - 1)

\* the id is the id of the first node of the document, in the order the
\* nodes are stored, that has the text
IsFirstWithText(id, text) ==
    LET nodes == TreeNodes(tree_dict)
    IN  \E k \in DOMAIN nodes :
           /\ nodes[k].id = id
           /\ nodes[k].text = text
           /\ \A i \in 1..(k - 1) : nodes[i].text # text

\* C19: go_back on a non-empty history returns True, removes exactly the
\* last entry of the history, and sets the current id to the id of the
\* first node, in the order the tree stores its nodes, whose text is the
\* removed entry; of two nodes with the same text it takes the first, also
\* when the other one is the node that was visited.
C19_GoBackLandsOnFirstNodeWithText ==
    (last.op = "go_back" /\ last.from_history # <<>>)
    => /\ last.result = "True"
       /\ history = WithoutLast(last.from_history)
       /\ IsFirstWithText(current_id, last.from_history[Len(last.from_history)])

\* go_back has landed on the first of two nodes with the removed text, a
\* node that does not lead to the node the cursor was on: the node visited
\* was the other one
C19_Witness ==
    /\ last.op = "go_back"
    /\ last.result = "True"
    /\ last.from_id \notin SuccessorsOf(NodeInDocument(current_id))
    /\ \E n \in Range(TreeNodes(tree_dict)) :
          /\ n.id # current_id
          /\ n.text = last.from_history[Len(last.from_history)]
          /\ last.from_id \in SuccessorsOf(n)

\* no node of the engine has the text any more
IsStale(text) == \A k \in DOMAIN engine_nodes : engine_nodes[k].node.text # text

\* C20 (under SpecEngineEdited, where texts of nodes are assigned after the
\* load): when the history is not empty and no node has the text of its
\* last entry, go_back raises nothing: it returns True, removes exactly the
\* last entry and sets the current id to "start".
C20_GoBackFallsBackToStart ==
    (/\ last.op = "go_back"
     /\ last.from_history # <<>>
     /\ IsStale(last.from_history[Len(last.from_history)]))
    => /\ last.result = "True"
       /\ current_id = "start"
       /\ history = WithoutLast(last.from_history)

\* go_back has been called two moves away from "start", the text of the
\* node last left having been replaced since
C20_Witness ==
    /\ last.op = "go_back"
    /\ Len(last.from_history) = 2
    /\ IsStale(last.from_history[2])
    /\ last.from_id # "start"
    /\ last.result = "True"
    /\ current_id = "start"

\* the latest call was made with the cursor on a resolution
CalledOnResolution ==
    /\ last.op \in {"navigate", "advance", "go_back", "reset"}
    /\ NodeInDocument(last.from_id).type = "resolution"

DistinctTexts ==
    LET nodes == TreeNodes(tree_dict)
    IN  \A i, j \in DOMAIN nodes : nodes[i].text = nodes[j].text => i = j

\* C22: in a tree whose texts are pairwise distinct, a go_back right after
\* a navigate or an advance that passed from node X returns True and
\* restores the cursor of before the move, current id X and the former
\* history; in every tree a go_back on a non-empty history makes the
\* history one shorter and lands on a node whose text is the removed entry.
C22_GoBackUndoesForwardMove ==
    [][last'.op = "go_back"
       => /\ (MovedForward /\ last.result = "None" /\ DistinctTexts)
               => /\ last'.result = "True"
                  /\ current_id' = last.from_id
                  /\ history' = last.from_history
          /\ history # <<>>
               => /\ Len(history') = Len(history) - 1
                  /\ NodeInDocument(current_id').text = history[Len(history)]]_vars

\* in a tree of distinct texts go_back has returned from a node two moves
\* away to a node other than "start" that leads to it, and the history is
\* again what it was on that node
C22_Witness ==
    /\ DistinctTexts
    /\ last.op = "go_back"
    /\ last.result = "True"
    /\ Len(last.from_history) = 2
    /\ current_id # "start"
    /\ last.from_id \in SuccessorsOf(NodeInDocument(current_id))
    /\ last.from_history = Append(history, NodeInDocument(current_id).text)

\* what the method gives a session that runs alone on the loaded tree
AloneGives(op, arg, id, hist) ==
    CASE op = "navigate" -> NavigateGives(LoadedNodes, id, hist, arg)
      [] op = "advance" -> AdvanceGives(LoadedNodes, id, hist)
      [] op = "reset" -> ResetGives(LoadedNodes, id, hist)
      [] op = "go_back" -> GoBackGives(LoadedNodes, id, hist)
      [] op = "is_complete" -> IsCompleteGives(LoadedNodes, id, hist)

-----------------------------------------------------------------------------
(* Properties of documents whose nodes share ids, checked under            *)
(* SpecDuplicateIds.                                                       *)

\* two nodes of the document have the same id
HasDuplicateIds(doc) ==
    \E i, j \in DOMAIN NodesOf(doc) : i # j /\ NodesOf(doc)[i].id = NodesOf(doc)[j].id

\* C26: validate does not look for duplicate ids: a document in which two
\* or more nodes have the same id and which breaks no rule, the ids taken
\* as a set, is accepted.
C26_DuplicateIdsAccepted ==
    (/\ Called
     /\ HasDuplicateIds(tree_dict)
     /\ FirstViolated(OrderStartFirst, tree_dict) = "none")
    => outcome.ok

\* validate has accepted three nodes of which two are called "start", a
\* step and a resolution
C26_Witness ==
    /\ Called
    /\ outcome.ok
    /\ Len(NodesOf(tree_dict)) = 3
    /\ \E i, j \in DOMAIN NodesOf(tree_dict) :
          /\ NodesOf(tree_dict)[i].id = "start"
          /\ NodesOf(tree_dict)[j].id = "start"
          /\ NodesOf(tree_dict)[i].type = "step"
          /\ NodesOf(tree_dict)[j].type = "resolution"

\* C27, as stated: approximate_total_steps is the number of nodes of the
\* node list of the loaded tree, in every state of the session.
C27_TotalStepsIsListLength ==
    Loaded => ApproximateTotalSteps(engine_nodes) = Len(TreeNodes(tree_dict))

\* C27: approximate_total_steps is the number of distinct ids of the node
\* list of the loaded tree, which is the length of the list when no two
\* nodes share an id, and it is the same in every state of the session.
C27_TotalStepsIsNumberOfIds ==
    Loaded
    => /\ ApproximateTotalSteps(engine_nodes) = Cardinality(NodeIdsOf(tree_dict))
       /\ ~HasDuplicateIds(tree_dict)
            => ApproximateTotalSteps(engine_nodes) = Len(TreeNodes(tree_dict))

\* a session on a list of three nodes over two ids has made two moves and
\* approximate_total_steps is 2
C27_Witness ==
    /\ Loaded
    /\ Len(TreeNodes(tree_dict)) = 3
    /\ ApproximateTotalSteps(engine_nodes) = 2
    /\ Len(history) = 2
    /\ last.op = "navigate"

-----------------------------------------------------------------------------
(* Properties of the builder's window, checked under SpecBuilder.          *)

\* C24, as stated: a worker thread never writes the shared state of the
\* application itself; the current tree is only ever assigned on the UI
\* thread, inside a callback scheduled with after().
C24_WorkersNeverWriteSharedState ==
    tree_written_by # "worker"

\* the step puts a document that validate has just accepted in place of
\* the builder's tree
ReplacedByValidated ==
    /\ analysis = "analyzing"
    /\ outcome'.ok
    /\ builder_tree' = tree_dict'

\* the two documents differ at most in the texts of their nodes
SameButTexts(a, b) ==
    /\ DOMAIN a = DOMAIN b
    /\ \A key \in DOMAIN a \ {"nodes"} : a[key] = b[key]
    /\ Len(a.nodes.items) = Len(b.nodes.items)
    /\ \A k \in DOMAIN a.nodes.items :
          [a.nodes.items[k] EXCEPT !.text = ""] = [b.nodes.items[k] EXCEPT !.text = ""]

\* C25, as stated: a tree that has passed validate is never mutated: until
\* it is packaged no step changes a node of the builder's tree; the tree
\* changes only when a newly validated one takes its place.
C25_ValidatedTreeNeverMutated ==
    [][(builder_tree # NoTree /\ builder_tree' # builder_tree)
       => ReplacedByValidated]_vars

\* C25: after validate no step changes the id, type, options or next of a
\* node of the builder's tree, but _edit_node assigns the text of a node;
\* the tree the builder holds, and the tree it packages, differ from the
\* validated one in node texts only and still pass validate.
C25_OnlyTextsChangeAfterValidation ==
    [][/\ builder_tree' # NoTree => Validate(builder_tree').ok
       /\ packaged' # NoTree => Validate(packaged').ok
       /\ (builder_tree # NoTree /\ builder_tree' # builder_tree)
            => \/ ReplacedByValidated
               \/ /\ tree_written_by' = "ui"
                  /\ SameButTexts(builder_tree, builder_tree')]_vars

\* the build has written out a tree that differs from the document
\* validate accepted: the user emptied the text of a node in between
C25_Witness ==
    /\ calls = 1
    /\ outcome.ok
    /\ packaged # NoTree
    /\ packaged # tree_dict
    /\ SameButTexts(tree_dict, packaged)
    /\ \E k \in DOMAIN packaged.nodes.items : packaged.nodes.items[k].text = ""

-----------------------------------------------------------------------------
(* Failures of analysis and validation in the builder. *)

\* the tree file an entry of library.json names holds a tree validate accepts
RefersToValidTree(e, files) ==
    \E f \in TreeFilenames :
        /\ e.tree_file = "trees/" \o f
        /\ files[f] # NoTree
        /\ Validate(files[f]).ok

\* C28: a tree that fails analysis or validation is never persisted.  In
\* single-document mode the worker that ends in the except clause leaves
\* self._tree_dict as it was.  In a library build the round of a document
\* whose analysis or validation raises saves no tree file and adds no entry,
\* and the build goes on; every entry of library.json names a tree file
\* whose tree passes validate.
C28_FailedTreeNeverPersisted ==
    [][/\ (analysis = "analyzing" /\ analysis' = "except")
            => builder_tree' = builder_tree
       /\ (lib_pos' = lib_pos + 1 /\ (calls' = calls \/ ~outcome'.ok))
            => /\ tree_files' = tree_files
               /\ library_entries' = library_entries
               /\ generate' = "building"
       /\ library_json' # NoLibrary
            => \A i \in DOMAIN library_json'.entries :
                   RefersToValidTree(library_json'.entries[i], tree_files')
      ]_vars

\* a library of two documents with text was built: the first one failed,
\* the second one is the only entry
C28_Witness ==
    /\ library_json # NoLibrary
    /\ Len(manifest) = 2
    /\ \A i \in DOMAIN manifest : Strip(manifest[i].text) # ""
    /\ Len(library_json.entries) = 1
    /\ library_json.entries[1].source_doc = "docs/" \o BuildOrder(manifest)[2].rel
    /\ RefersToValidTree(library_json.entries[1], tree_files)

-----------------------------------------------------------------------------
(* Opening a tree in the library viewer. *)

\* the session a TreeEngine over the tree starts as
SessionOver(tree) ==
    [nodes |-> IndexNodes(TreeNodes(tree), 1, <<>>),
     current_id |-> "start", history |-> <<>>]

\* C29: opening a library entry whose tree file loads creates a navigation
\* session over that entry's tree, at "start" with an empty history, and the
\* tree panel then shows that session's current node.  Stated of the step
\* that makes another entry the active one.
C29_OpenTreeStartsSession ==
    [][(active_entry' # active_entry
            /\ LoadTree(active_entry', trees_dir) # FileNotFound)
        => /\ tree_engine' = SessionOver(LoadTree(active_entry', trees_dir))
           /\ tree_panel' = RefreshTreePanel(tree_engine', active_entry')
           /\ tree_panel' # Placeholder
      ]_vars

-----------------------------------------------------------------------------
(* Bulk ingest is incremental. *)

\* the file is in the source folder with the hash the manifest records
Unchanged(m, source, rel_str) ==
    /\ source[rel_str] # NoFile
    /\ RecordedHash(m, rel_str) = HashFile(source[rel_str])

\* the entries of a manifest for a document
EntriesOf(m, rel_str) == {m[k] : k \in {j \in DOMAIN m : m[j].rel = rel_str}}

\* C30: bulk ingest is incremental and idempotent.  A scanned file whose
\* SHA-256 hash is the one the loaded manifest records for its relative path
\* is skipped: not copied, not extracted again, its entry as it was.  A call
\* of ingest on the source files the call before it met copies nothing and
\* returns a manifest equal to the one the call before returned.
C30_IngestIncrementalAndIdempotent ==
    [][ingest_last' # ingest_last
        => /\ \A rel_str \in LibraryRels :
                 Unchanged(ingest_last'.loaded, source_files, rel_str)
                 => /\ rel_str \notin ingest_last'.copied
                    /\ rel_str \notin ingest_last'.extracted
                    /\ docs_dir'[rel_str] = docs_dir[rel_str]
                    /\ EntriesOf(ingest_last'.returned, rel_str)
                           = EntriesOf(ingest_last'.loaded, rel_str)
           /\ (ingest_last # NoRun /\ ingest_last.source = source_files)
                 => /\ ingest_last'.copied = {}
                    /\ ingest_last'.returned = ingest_last.returned
                    /\ docs_dir' = docs_dir
      ]_vars

\* ingest ran twice in a row on two files, one of them unreadable: the
\* second call found both recorded, copied none and returned the same
C30_Witness ==
    /\ ingest_last # NoRun
    /\ source_changes = 0
    /\ Len(ingest_last.loaded) = 2
    /\ \E k \in DOMAIN ingest_last.loaded :
           "extract_error" \in DOMAIN ingest_last.loaded[k]
    /\ \A k \in DOMAIN ingest_last.loaded :
           Unchanged(ingest_last.loaded, ingest_last.source,
                     ingest_last.loaded[k].rel)
    /\ ingest_last.copied = {}
    /\ ingest_last.returned = ingest_last.loaded
    /\ \A k \in DOMAIN ingest_last.loaded :
           docs_dir[ingest_last.loaded[k].rel] # NoFile

-----------------------------------------------------------------------------
(* The engine on a tree validate accepted: where the cursor can be, and    *)
(* what can be reached.                                                    *)

\* C31: for an engine loaded with a tree validate accepted, after any calls
\* of navigate, advance, go_back and reset, passing or failing, the current
\* id is the id of a node of the tree: get_current_node and is_complete
\* never fail for a missing node.
C31_CursorStaysOnANode ==
    Loaded
    => /\ HasNode(engine_nodes, current_id)
       /\ \E k \in DOMAIN TreeNodes(tree_dict) :
              TreeNodes(tree_dict)[k].id = current_id
       /\ last # NoCall => last.result # NoSuchNode
       /\ IsCompleteGives(engine_nodes, current_id, history).result
              \in {"True", "False"}

\* on a tree with two nodes of one id, a failing advance and two moves
\* later, go_back has put the cursor on "n2"
C31_Witness ==
    /\ Loaded
    /\ HasDuplicateIds(tree_dict)
    /\ last.op = "go_back"
    /\ last.result = "True"
    /\ Len(last.from_history) = 2
    /\ current_id = "n2"
    /\ HasNode(engine_nodes, current_id)

\* the labels of the options of the indexed node
LabelsAt(index, id) ==
    LET node == NodeAt(index, id)
    IN  IF node.type = "question" /\ "options" \in DOMAIN node
        THEN {node.options.items[j].label : j \in DOMAIN node.options.items}
        ELSE {}

\* the ids a navigate or an advance that passes on the node leads to
ForwardMoves(index, id) ==
    IF ~HasNode(index, id) THEN {}
    ELSE {NavigateGives(index, id, <<>>, l).current_id : l \in LabelsAt(index, id)}
         \cup (IF AdvanceGives(index, id, <<>>).result = "None"
               THEN {AdvanceGives(index, id, <<>>).current_id} ELSE {})

\* the ids some sequence of passing navigate and advance calls leads to
RECURSIVE WalkableFrom(_, _)
WalkableFrom(S, index) ==
    LET T == S \cup UNION {ForwardMoves(index, id) : id \in S}
    IN  IF T = S THEN S ELSE WalkableFrom(T, index)

\* no question of the document has two options with the same label
DistinctLabels ==
    \A n \in Range(TreeNodes(tree_dict)) :
        n.type = "question"
        => \A i, j \in DOMAIN n.options.items :
               n.options.items[i].label = n.options.items[j].label => i = j

\* C32 as stated: every node id of a tree validate accepted is the current
\* id after some sequence of passing navigate and advance calls from the
\* initial state.
C32_EveryIdWalkable ==
    Loaded => NodeIdsOf(tree_dict) \subseteq WalkableFrom({"start"}, engine_nodes)

\* C32, amended: it is so for a tree with one node per id in which no
\* question has two options with the same label; navigate takes the first
\* option with the label, and the index keeps the last node with an id,
\* while validate follows every option of every node.
C32_EveryIdWalkableWhenUnambiguous ==
    (Loaded /\ DistinctLabels /\ ~HasDuplicateIds(tree_dict))
    => /\ NodeIdsOf(tree_dict) = WalkableFrom({"start"}, engine_nodes)
       /\ ReachableIds(tree_dict) = WalkableFrom({"start"}, engine_nodes)

\* the cursor has walked to the third node of a tree of three, by the
\* second option of a question and a step
C32_Witness ==
    /\ Loaded
    /\ DistinctLabels
    /\ ~HasDuplicateIds(tree_dict)
    /\ Len(TreeNodes(tree_dict)) = 3
    /\ Len(history) = 2
    /\ last.op = "advance"
    /\ last.result = "None"
    /\ NodeInDocument("start").type = "question"
    /\ NodeInDocument("start").options.items[2].next = last.from_id
    /\ current_id \notin {"start", last.from_id}
    /\ current_id \in WalkableFrom({"start"}, engine_nodes)

\* is_complete returns True after some passing navigate and advance calls
CanComplete(index, id) ==
    \E n \in WalkableFrom({id}, index) :
        IsCompleteGives(index, n, <<>>).result = "True"

\* from every node of the document its edges lead to a resolution
EveryNodeLeadsToResolution ==
    \A n \in Range(TreeNodes(tree_dict)) :
        \E m \in Range(TreeNodes(tree_dict)) :
            /\ m.type = "resolution"
            /\ m.id \in ClosureOf({n.id}, EdgesOf(tree_dict))

\* C33 as stated: on every tree validate accepted, from every state a
\* session reaches some sequence of navigate and advance calls leads to a
\* state where is_complete is true.
C33_CompletionAlwaysReachable ==
    Loaded => CanComplete(engine_nodes, current_id)

\* C33, amended: validate accepts trees without a resolution and trees with
\* a cycle that has no exit.  Completion can be reached from every state of
\* a session on a tree in which the edges of every node lead to a
\* resolution, with one node per id and no question with two options of the
\* same label.
C33_CompletionReachableWhereResolutionIs ==
    (Loaded /\ EveryNodeLeadsToResolution /\ DistinctLabels
        /\ ~HasDuplicateIds(tree_dict))
    => CanComplete(engine_nodes, current_id)

\* a session has gone round a cycle of a tree that has a resolution, back
\* to "start": completion is two calls away
C33_Witness ==
    /\ Loaded
    /\ EveryNodeLeadsToResolution
    /\ DistinctLabels
    /\ ~HasDuplicateIds(tree_dict)
    /\ Len(history) = 2
    /\ current_id = "start"
    /\ last.op \in {"navigate", "advance"}
    /\ last.result = "None"
    /\ IsCompleteGives(engine_nodes, current_id, history).result = "False"
    /\ \A n \in ForwardMoves(engine_nodes, current_id) :
           IsCompleteGives(engine_nodes, n, <<>>).result = "False"
    /\ CanComplete(engine_nodes, current_id)

\* the call passes and leaves the cursor on a node
PassesOntoANode(index, gives) ==
    /\ gives.result = "None"
    /\ HasNode(index, gives.current_id)

\* C34: no dead end before a resolution.  In every state a session reaches
\* on a tree validate accepted, advance passes if the current node is a
\* step, and navigate passes for every label among the options of the
\* current node if it is a question.
C34_NoDeadEndBeforeResolution ==
    Loaded
    => /\ HasNode(engine_nodes, current_id)
       /\ LET node == NodeAt(engine_nodes, current_id) IN
          /\ node.type = "step"
               => PassesOntoANode(engine_nodes,
                                  AdvanceGives(engine_nodes, current_id, history))
          /\ node.type = "question"
               => /\ LabelsAt(engine_nodes, current_id) # {}
                  /\ \A l \in LabelsAt(engine_nodes, current_id) :
                         PassesOntoANode(engine_nodes,
                                         NavigateGives(engine_nodes, current_id,
                                                       history, l))

\* after two moves the cursor is on a step whose next is the step itself,
\* and on it a call that is no advance has just failed
C34_Witness ==
    /\ Loaded
    /\ Len(history) = 2
    /\ NodeAt(engine_nodes, current_id).type = "step"
    /\ NodeAt(engine_nodes, current_id).next = current_id
    /\ last.op = "navigate"
    /\ last.result = NotAQuestion
    /\ AdvanceGives(engine_nodes, current_id, history).result = "None"

-----------------------------------------------------------------------------
(* The history of a session. *)

\* the node of the document with the text
NodeWithText(text) ==
    LET nodes == TreeNodes(tree_dict)
    IN  nodes[CHOOSE k \in DOMAIN nodes : nodes[k].text = text]

\* C35: in a tree with pairwise distinct ids and pairwise distinct texts,
\* in every state a session reaches the history is the sequence of the
\* texts of nodes n1..nk where n1 is "start", each n(i+1) is a successor of
\* n(i) and the current node is a successor of nk; the history is empty
\* only when the current id is "start".
C35_HistoryIsAWalkedPath ==
    (DistinctTexts /\ ~HasDuplicateIds(tree_dict))
    => /\ \A i \in DOMAIN history :
              \E n \in Range(TreeNodes(tree_dict)) : n.text = history[i]
       /\ history # <<>> => NodeWithText(history[1]).id = "start"
       /\ \A i \in 1..(Len(history) - 1) :
              NodeWithText(history[i + 1]).id
                  \in SuccessorsOf(NodeWithText(history[i]))
       /\ history # <<>>
              => current_id \in SuccessorsOf(NodeWithText(history[Len(history)]))
       /\ history = <<>> => current_id = "start"

\* after three moves through three nodes and a go_back, the history is the
\* path from "start" to the node before the current one
C35_Witness ==
    /\ DistinctTexts
    /\ ~HasDuplicateIds(tree_dict)
    /\ last.op = "go_back"
    /\ last.result = "True"
    /\ Len(history) = 2
    /\ NodeWithText(history[1]).id = "start"
    /\ NodeWithText(history[2]).id \notin {"start", current_id}
    /\ current_id # "start"
    /\ current_id \in SuccessorsOf(NodeWithText(history[2]))

-----------------------------------------------------------------------------
(* Properties of the builder's threads, checked under SpecBuilderFair.     *)

\* C36: in single-document mode every started worker eventually re-enables
\* its button: once _run_analysis has disabled the Analyze button, a
\* completion callback sets it back to normal, also when the analysis
\* raises, and likewise for the Build button.  The lambda of the except
\* clause names exc after the clause has unbound it, so after a failure
\* the button stays disabled.
C36_WorkerReenablesButton ==
    /\ (analyze_btn = "disabled") ~> (analyze_btn = "normal")
    /\ (build_btn = "disabled") ~> (build_btn = "normal")

\* an analysis worker has been started and its completion callback has not
\* yet run on the UI thread: the worker is running, or its callback waits
\* in the queue of the main loop
AnalysisInFlight ==
    \/ analysis \in {"analyzing", "assigned"}
    \/ \E i \in DOMAIN after_queue :
           after_queue[i] \in {"on_analysis_success", "on_analysis_error"}

\* C37: at most one analysis worker runs at a time: from the start of a
\* worker by _run_analysis until its completion callback has run on the UI
\* thread, the Analyze button is disabled and no step starts a second
\* worker.
C37_OneAnalysisWorker ==
    [][/\ AnalysisInFlight =>
            /\ analyze_btn = "disabled"
            /\ analyses' = analyses
       /\ AnalysisInFlight' => analyze_btn' = "disabled"]_vars

\* the second analysis of a session is running, its button disabled, after
\* the first one's callback has run
C37_Witness ==
    /\ analyses = 2
    /\ analysis = "analyzing"
    /\ analyze_btn = "disabled"
    /\ after_queue = <<>>

-----------------------------------------------------------------------------
(* Properties of the viewer's window, checked under SpecViewerUI.          *)

\* the buttons the claim allows on the node the engine is on: one per
\* option of a question, Next Step on a step, Start Over on a resolution
OfferedFor(node) ==
    nav_frame # <<>>
    /\ \A k \in DOMAIN nav_frame :
          LET button == nav_frame[k] IN
          \/ /\ button.command = "choose_option"
             /\ node.type = "question"
             /\ button.lbl \in {node.options.items[j].label :
                                    j \in DOMAIN node.options.items}
          \/ button.command = "advance" /\ node.type = "step"
          \/ button.command = "reset" /\ node.type = "resolution"

\* C38: the viewer's window never causes a navigation error: after every
\* refresh the navigation area offers only navigate(l) for the labels l of
\* the current question, advance() on a step and reset on a resolution,
\* the Back button is enabled exactly when there is history, no call a
\* button made has raised and no click on a button now offered raises.
C38_WindowNeverRaises ==
    /\ HasNode(engine_nodes, current_id)
    /\ OfferedFor(NodeAt(engine_nodes, current_id))
    /\ back_btn = "normal" <=> history # <<>>
    /\ last # NoCall => last.result \notin EngineErrors
    /\ \A k \in DOMAIN nav_frame :
          CommandGives(nav_frame[k]).result \notin EngineErrors
    /\ GoBackGives(engine_nodes, current_id, history).result \notin EngineErrors
    /\ ResetGives(engine_nodes, current_id, history).result \notin EngineErrors

\* Back has been pressed after two moves and the window offers the two
\* options of a question again
C38_Witness ==
    /\ last # NoCall
    /\ last.op = "go_back"
    /\ Len(last.from_history) = 2
    /\ back_btn = "normal"
    /\ Len(nav_frame) = 2
    /\ nav_frame[1].command = "choose_option"

-----------------------------------------------------------------------------
(* The tree files of a library build, checked under SpecBuilder. *)

\* the tree file an entry of library.json names
TreeFileOf(e) == CHOOSE f \in TreeFilenames : e.tree_file = "trees/" \o f

\* C39: in a library build distinct manifest documents get distinct tree
\* files, and the file an entry names keeps the tree generated from that
\* entry's own document: no step changes the tree file of an entry already
\* in the list.  Two documents whose paths differ only in characters the
\* file name replaces by "_" share one tree file.
C39_OneTreeFilePerDocument ==
    [][/\ \A i, j \in DOMAIN library_entries' :
              library_entries'[i].source_doc # library_entries'[j].source_doc
                  => library_entries'[i].tree_file
                         # library_entries'[j].tree_file
       /\ \A i \in DOMAIN library_entries :
              (i \in DOMAIN library_entries'
                   /\ library_entries'[i] = library_entries[i])
                  => tree_files'[TreeFileOf(library_entries[i])]
                         = tree_files[TreeFileOf(library_entries[i])]
      ]_vars

-----------------------------------------------------------------------------
(* Termination of validate, checked under SpecTraverseFair.                *)

\* a step of the document leads to itself
HasSelfLoop(doc) ==
    \E k \in DOMAIN TreeNodes(doc) :
        /\ TreeNodes(doc)[k].type = "step"
        /\ TreeNodes(doc)[k].next = TreeNodes(doc)[k].id

\* C40: validate terminates on every finite document, documents whose
\* edges form cycles or self-loops included: the traversal from "start"
\* adds each node id to visited at most once, every call of validate ends
\* in a result, and the result of the step-by-step traversal is the one
\* validate gives.
C40_ValidateTerminates ==
    /\ [](/\ \A i, j \in DOMAIN visit_log :
                visit_log[i] = visit_log[j] => i = j
          /\ outcome # NotCalled => /\ trav_queue = <<>>
                                    /\ outcome = Validate(tree_dict))
    /\ <>(outcome # NotCalled)

\* the traversal of a document with a step that leads to itself has come
\* back to an id it has visited
C40_Witness ==
    /\ HasSelfLoop(tree_dict)
    /\ trav_queue # <<>>
    /\ trav_queue[Len(trav_queue)] \in trav_visited
    /\ Len(visit_log) >= 2

====
